---- MODULE Spec2Model ----
(***************************************************************************)
(* Instance lifecycle and port allocation of the ctf-webserver-manager     *)
(* agent: the REST handlers POST /instances, POST /instances/:id/stop,     *)
(* DELETE /instances/:id, GET /instances/:id/logs, PUT /settings, POST     *)
(* /challenges, POST /import and DELETE /challenges/:id, the port          *)
(* allocator, the per-instance workspace, the settings row, the content    *)
(* hash and the container runtime they drive.                              *)
(*                                                                         *)
(* A handler is cut into one action per await point; the code between two  *)
(* awaits runs without interruption (Node's single thread) and is one      *)
(* TLA+ step.  Spec runs one request at a time; SpecConc lets two Start    *)
(* requests interleave at their await points; SpecMix lets a Stop or a     *)
(* Delete arrive while a Start is served, SpecRace a challenge deletion;   *)
(* SpecSettings adds PUT /settings and Logs to the one-at-a-time run,      *)
(* SpecChallenges the import and the deletion of challenges; SpecLive is   *)
(* the one-at-a-time run in which every awaited operation returns.         *)
(* SpecPorts, SpecSummary, SpecSecrets, SpecRender, SpecHash and           *)
(* SpecInitDb run findAvailablePort, getPortSummary, loadMysqlSecrets,     *)
(* writeComposeFiles, hashDirectory and initDb on their own.               *)
(***************************************************************************)
EXTENDS Integers, Sequences, FiniteSets, TLC

\* ------------------------------------------------------------------ bounds

\* Ports are scaled down to 1..MaxPort (the program's are 1..65535).
MaxPort == 2
\* Number of instance ids (UUIDs) that can be in use at the same time.
MaxInstances == 2
\* Every new Date() reads a later time than the one before, up to MaxClock:
\* from then on the readings tie.
MaxClock == 1
\* Longest range list drawn for the allocator's own specification.
MaxRanges == 2
\* The concurrency getPortSummary is called with (40 by default).
SummaryConcurrency == 2
\* Most files in a file tree, and most bytes in a file.
MaxFiles == 2
MaxContentLen == 2

Ports == 1..MaxPort
InstanceIds == 1..MaxInstances
ChallengeIds == {1, 2}
\* Request slots: Spec uses SeqReqs, SpecConc uses ConcReqs.
SeqReqs == {1}
ConcReqs == {1, 2}
Reqs == ConcReqs

NoRow == [none |-> TRUE]
NoDir == [nodir |-> TRUE]
NoSecrets == [nosecrets |-> TRUE]
NoPort == 0
EmptyChallengeId == 0

VARIABLES
    settings,    \* the settings row (id = 1)
    challenges,  \* challenges table: challenge id -> row or NoRow
    storage,     \* canonical file tree of a challenge: id -> tree or NoDir
    instances,   \* instances table: instance id -> row or NoRow
    workdirs,    \* workdirs/<instance id>: directory or NoDir
    up,          \* container runtime: the compose projects brought up and not torn down
    busy,        \* the ports on which a bind probe on 127.0.0.1 fails
    clock,       \* the time the next new Date() reads
    req,         \* per request slot: position in its handler and its locals
    pre,         \* store, workspaces and runtime when the request being served arrived
    fx           \* arguments and result of a function run on its own

vars == <<settings, challenges, storage, instances, workdirs, up, busy, clock, req, pre, fx>>

\* ------------------------------------------------------------- persistent store

\* db.ts DEFAULT_PORT_RANGES, scaled to the port universe.
DEFAULT_PORT_RANGES == << [start |-> 1, end |-> MaxPort] >>
DEFAULT_MYSQL_DATABASE == "ctf"
DEFAULT_MYSQL_USER == "root"

\* ensureSettings: the row inserted on first start (generatePassword() is "pw1").
ensureSettings ==
    [ port_ranges         |-> DEFAULT_PORT_RANGES,
      host                |-> "",
      host_scheme         |-> "http",
      mysql_root_password |-> "pw1",
      mysql_database      |-> DEFAULT_MYSQL_DATABASE,
      mysql_user          |-> DEFAULT_MYSQL_USER,
      mysql_password      |-> "pw1",
      updated_at          |-> 0 ]

\* A column that holds SQL NULL.
Null == "<NULL>"

\* !value, for a TEXT column: NULL and the empty string.
Missing(value) == value = Null \/ value = ""

\* value ?? default
orElse(value, default) == IF value = Null THEN default ELSE value

\* The settings table is modelled as id -> row for the ids it holds; the
\* column CHECK (id = 1) leaves 1 as the only id.
\* ensureSettings(db): INSERT the default row unless a row with id 1 is there.
ensureSettingsIn(tbl) ==
    IF 1 \in DOMAIN tbl THEN tbl ELSE [i \in {1} |-> ensureSettings]

\* A start that leaves a legacy row as it finds it.
normalizeSettingsNone(tbl, fqdn, gen, now) == tbl

\* normalizeSettings(db, columns): fqdn is the value of the legacy column of
\* that name (Null when there is none), gen the two passwords
\* generatePassword() would return.
normalizeSettings(tbl, fqdn, gen, now) ==
    LET current == tbl[1]
        hostFromLegacy == Missing(current.host) /\ ~Missing(fqdn)
        host == IF hostFromLegacy THEN fqdn ELSE IF Missing(current.host) THEN "" ELSE current.host
        mysqlRootPassword ==
            IF Missing(current.mysql_root_password) THEN gen[1] ELSE current.mysql_root_password
        mysqlDatabase ==
            IF Missing(current.mysql_database) THEN DEFAULT_MYSQL_DATABASE
            ELSE current.mysql_database
        mysqlUser ==
            IF Missing(current.mysql_user) THEN DEFAULT_MYSQL_USER ELSE current.mysql_user
        mysqlPassword ==
            IF Missing(current.mysql_password)
            THEN (IF mysqlUser = "root" THEN mysqlRootPassword ELSE gen[2])
            ELSE current.mysql_password
        hostScheme ==
            IF current.host_scheme # "http" /\ current.host_scheme # "https" THEN "http"
            ELSE current.host_scheme
        changed ==
            \/ hostFromLegacy
            \/ Missing(current.mysql_root_password) \/ Missing(current.mysql_database)
            \/ Missing(current.mysql_user) \/ Missing(current.mysql_password)
            \/ hostScheme # current.host_scheme
    IN IF changed
       THEN [tbl EXCEPT ![1] =
                [current EXCEPT !.host = host, !.host_scheme = hostScheme,
                                !.mysql_root_password = mysqlRootPassword,
                                !.mysql_database = mysqlDatabase,
                                !.mysql_user = mysqlUser,
                                !.mysql_password = mysqlPassword,
                                !.updated_at = now]]
       ELSE tbl

\* initDb(dbPath): migrate creates the table if it is not there, then the
\* row is ensured and normalized.
initDb(tbl, fqdn, gen, now) == normalizeSettings(ensureSettingsIn(tbl), fqdn, gen, now)

Rows(tbl) == {i \in DOMAIN tbl : tbl[i] # NoRow}

getChallenge(id) == IF id \in ChallengeIds THEN challenges[id] ELSE NoRow

\* A lookup that falls back on another row when the id has none.
getInstanceOrAny(tbl, id) ==
    IF id \in InstanceIds /\ tbl[id] # NoRow THEN tbl[id]
    ELSE IF \E i \in DOMAIN tbl : tbl[i] # NoRow
    THEN tbl[CHOOSE i \in DOMAIN tbl : tbl[i] # NoRow]
    ELSE NoRow

getInstance(tbl, id) == IF id \in InstanceIds THEN tbl[id] ELSE NoRow

listInstancesByChallenge(tbl, c) == {i \in Rows(tbl) : tbl[i].challenge_id = c}

\* A lookup that finds no row.
getLatestInstanceNone(tbl, c) == {}

\* SELECT ... WHERE challenge_id = ? ORDER BY created_at DESC LIMIT 1: the rows
\* SQLite may return, any row of the challenge with the greatest created_at.
getLatestInstanceByChallenge(tbl, c) ==
    {i \in listInstancesByChallenge(tbl, c) :
        \A j \in listInstancesByChallenge(tbl, c) : tbl[j].created_at <= tbl[i].created_at}

listRunningInstances(tbl) == {i \in Rows(tbl) : tbl[i].status = "running"}

\* new Set(listRunningInstances(db).map((instance) => instance.host_port))
\* A reserved set that forgets the running instances.
reservedPortsNone(tbl) == {}

reservedPorts(tbl) == {tbl[i].host_port : i \in listRunningInstances(tbl)}

insertInstance(tbl, row) == [tbl EXCEPT ![row.id] = row]

updateInstanceStatus(tbl, id, status, now) ==
    IF tbl[id] = NoRow THEN tbl
    ELSE [tbl EXCEPT ![id].status = status, ![id].updated_at = now]

\* An update that also restarts the row's creation time.
updateInstanceAfterStartAsNew(tbl, id, status, hostPort, now) ==
    IF tbl[id] = NoRow THEN tbl
    ELSE [tbl EXCEPT ![id].status = status, ![id].host_port = hostPort,
                     ![id].updated_at = now, ![id].created_at = now]

updateInstanceAfterStart(tbl, id, status, hostPort, now) ==
    IF tbl[id] = NoRow THEN tbl
    ELSE [tbl EXCEPT ![id].status = status, ![id].host_port = hostPort,
                     ![id].updated_at = now]

\* DELETE FROM instances WHERE challenge_id = ?
deleteInstancesByChallenge(tbl, c) ==
    [i \in DOMAIN tbl |-> IF tbl[i] # NoRow /\ tbl[i].challenge_id = c THEN NoRow ELSE tbl[i]]

\* DELETE FROM challenges WHERE id = ?
deleteChallenge(tbl, c) == [tbl EXCEPT ![c] = NoRow]

\* SELECT * FROM instances WHERE challenge_id = ? ORDER BY created_at DESC as
\* the list of rows SQLite may return: newest first, ties in any order.
listInstancesNewestFirst(tbl, c) ==
    LET ids == listInstancesByChallenge(tbl, c)
    IN {[k \in DOMAIN o |-> tbl[o[k]]] :
           o \in {q \in [1..Cardinality(ids) -> ids] :
                     /\ \A i, j \in DOMAIN q : i # j => q[i] # q[j]
                     /\ \A i, j \in DOMAIN q :
                            i < j => tbl[q[i]].created_at >= tbl[q[j]].created_at}}

deleteInstance(tbl, id) == [tbl EXCEPT ![id] = NoRow]

\* ------------------------------------------------------------------ ports

\* isPortAvailable: whether the bind on 127.0.0.1 succeeds.
isPortAvailable(p) == p \notin busy

\* findAvailablePort's two loops, from port `port` of range k on: reserved
\* ports are skipped, the others probed in turn (probed collects them); the
\* first whose probe succeeds is returned, NoPort stands for the throw.
RECURSIVE findScan(_, _, _, _, _, _)
findScan(ranges, k, port, reserved, avail, probed) ==
    IF k > Len(ranges) THEN [port |-> NoPort, probed |-> probed]
    ELSE IF port > ranges[k].end
    THEN findScan(ranges, k + 1,
                  IF k + 1 <= Len(ranges) THEN ranges[k + 1].start ELSE NoPort,
                  reserved, avail, probed)
    ELSE IF port \in reserved
    THEN findScan(ranges, k, port + 1, reserved, avail, probed)
    ELSE IF port \in avail
    THEN [port |-> port, probed |-> Append(probed, port)]
    ELSE findScan(ranges, k, port + 1, reserved, avail, Append(probed, port))

\* An allocator that takes the ranges last to first.
findAvailablePortRunLastRangeFirst(ranges, reserved, avail) ==
    LET reversed == [k \in 1..Len(ranges) |-> ranges[Len(ranges) + 1 - k]]
    IN findScan(reversed, 1, IF Len(reversed) > 0 THEN reversed[1].start ELSE NoPort,
                reserved, avail, << >>)

findAvailablePortRun(ranges, reserved, avail) ==
    findScan(ranges, 1, IF Len(ranges) > 0 THEN ranges[1].start ELSE NoPort,
             reserved, avail, << >>)

\* An allocator that scans the default ranges whatever ranges it is given.
findAvailablePortDefaultRanges(ranges, reserved, avail) ==
    findAvailablePortRun(DEFAULT_PORT_RANGES, reserved, avail).port

\* An allocator that probes reserved ports like any other.
findAvailablePortNoSkip(ranges, reserved, avail) ==
    findAvailablePortRun(ranges, {}, avail).port

findAvailablePort(ranges, reserved, avail) ==
    findAvailablePortRun(ranges, reserved, avail).port

\* expandRanges: the port entries of the ranges, range after range in list
\* order and ascending within a range; a port of two ranges is there twice.
RECURSIVE expandRanges(_)
expandRanges(ranges) ==
    IF Len(ranges) = 0 THEN << >>
    ELSE [k \in 1..(ranges[1].end - ranges[1].start + 1) |-> ranges[1].start + k - 1]
         \o expandRanges(Tail(ranges))

AvailNow == {p \in Ports : isPortAvailable(p)}

\* new Date().toISOString(): the reading, and the clock after it.
ClockAfterRead == IF clock < MaxClock THEN clock + 1 ELSE clock

getContainerPort(runtime) == IF runtime = "php" THEN 80 ELSE 8000

\* `ctfwl_${instanceId.replace(/-/g, "")}`: one project per instance id.
composeProject(id) == id

\* ------------------------------------------------------------ content hash

\* Bytes of file names and file contents.  Byte 0 is NUL: a file content may
\* hold it, a path may not.
Bytes == 0..2
\* Relative paths of the regular files a tree can hold.
Paths == {<<1>>, <<2>>, <<1, 2>>}
Contents == UNION {[1..n -> Bytes] : n \in 0..MaxContentLen}
\* A file tree: relative path of each regular file -> its content.
Trees == UNION {[D -> Contents] : D \in {S \in SUBSET Paths : Cardinality(S) <= MaxFiles}}
\* The orders in which readdir can hand out the files of a tree.
Orders(tree) ==
    {o \in [1..Cardinality(DOMAIN tree) -> DOMAIN tree] :
        \A i, j \in DOMAIN o : i # j => o[i] # o[j]}

\* listFiles: the relative paths of the regular files, in traversal order.
listFiles(tree, order) == SelectSeq(order, LAMBDA p : p \in DOMAIN tree)

\* The order of Array.prototype.sort() without a comparator: strings compare
\* code unit by code unit, a proper prefix first.
RECURSIVE pathLess(_, _)
pathLess(a, b) ==
    IF Len(a) = 0 THEN Len(b) > 0
    ELSE IF Len(b) = 0 THEN FALSE
    ELSE IF Head(a) # Head(b) THEN Head(a) < Head(b)
    ELSE pathLess(Tail(a), Tail(b))

RECURSIVE sortInsert(_, _)
sortInsert(p, sorted) ==
    IF Len(sorted) = 0 THEN <<p>>
    ELSE IF pathLess(p, Head(sorted)) THEN <<p>> \o sorted
    ELSE <<Head(sorted)>> \o sortInsert(p, Tail(sorted))

\* A hash that feeds the files in traversal order.
sortFilesNone(files) == files

\* files.sort()
RECURSIVE sortFiles(_)
sortFiles(files) ==
    IF Len(files) = 0 THEN << >>
    ELSE sortInsert(Head(files), sortFiles(Tail(files)))

\* A hash that feeds the paths only.
RECURSIVE hashUpdatesPathsOnly(_, _)
hashUpdatesPathsOnly(tree, files) ==
    IF Len(files) = 0 THEN << >>
    ELSE Head(files) \o <<0>> \o hashUpdatesPathsOnly(tree, Tail(files))

\* The bytes the loop feeds to the hash: for each file its relative path, a
\* NUL byte and its content, one after the other.
RECURSIVE hashUpdates(_, _)
hashUpdates(tree, files) ==
    IF Len(files) = 0 THEN << >>
    ELSE Head(files) \o <<0>> \o tree[Head(files)] \o hashUpdates(tree, Tail(files))

\* hashDirectory(dir) is "sha256:" and the digest of the bytes fed; SHA-256 is
\* taken as injective, so the result is represented by the bytes fed.
hashDirectory(tree, order) == hashUpdates(tree, sortFiles(listFiles(tree, order)))

\* ------------------------------------------------------------ challenges

\* The bundle uploaded as challenge c (metadata and files): challenge 1 is a
\* php application without a database, every other one a flask application
\* with mysql and no db/init.sql seed.
UploadOf(c) ==
    IF c = 1
    THEN [runtime |-> "php", db_type |-> "none", init |-> FALSE,
          files |-> [p \in {<<1>>} |-> <<1>>]]
    ELSE [runtime |-> "flask", db_type |-> "mysql", init |-> FALSE,
          files |-> [p \in {<<1>>, <<2>>} |-> IF p = <<1>> THEN <<2, 0>> ELSE << >>]]

\* ------------------------------------------------------------- workspace

EmptyDir == [pack |-> FALSE, init |-> FALSE, compose |-> NoPort, secrets |-> NoSecrets]

\* fs.stat(packDir).then((stat) => stat.isDirectory()).catch(() => false)
packExists(id) == workdirs[id] # NoDir /\ workdirs[id].pack

\* fs.stat(composeFile).then((stat) => stat.isFile()).catch(() => false)
composeExists(id) == workdirs[id] # NoDir /\ workdirs[id].compose # NoPort

\* fs.stat(path.join(packDir, "db", "init.sql"))
dbInitExists(id) == packExists(id) /\ workdirs[id].init

getMysqlSettings(s) ==
    [ mysql_root_password |-> s.mysql_root_password,
      mysql_database      |-> s.mysql_database,
      mysql_user          |-> s.mysql_user,
      mysql_password      |-> IF s.mysql_user = "root" THEN s.mysql_root_password
                              ELSE s.mysql_password ]

\* The four fields of a secrets record.
SecretFields == {"mysql_root_password", "mysql_database", "mysql_user", "mysql_password"}

\* fromFile?.field ?? base.field: the parsed file is a partial record, and
\* NoSecrets (no file) holds none of the fields.
fileOr(fromFile, field, base) ==
    IF field \in DOMAIN fromFile THEN fromFile[field] ELSE base[field]

\* A resolution that does not force the password of user root.
loadMysqlSecretsNoMirror(fromFile, s) ==
    [f \in SecretFields |-> fileOr(fromFile, f, getMysqlSettings(s))]

\* A resolution that ignores the secrets file.
loadMysqlSecretsFromSettings(fromFile, s) == getMysqlSettings(s)

\* loadMysqlSecrets: the value resolved from the secrets file (NoSecrets when
\* there is none) and the settings; the caller writes it back to the file.
loadMysqlSecrets(fromFile, s) ==
    LET base == getMysqlSettings(s)
        mysqlRootPassword == fileOr(fromFile, "mysql_root_password", base)
        mysqlUser == fileOr(fromFile, "mysql_user", base)
    IN [ mysql_root_password |-> mysqlRootPassword,
         mysql_database      |-> fileOr(fromFile, "mysql_database", base),
         mysql_user          |-> mysqlUser,
         mysql_password      |-> IF mysqlUser = "root" THEN mysqlRootPassword
                                 ELSE fileOr(fromFile, "mysql_password", base) ]

\* A write that leaves the user out of the file.
writeMysqlSecretsWithoutUser(secrets) ==
    [f \in SecretFields \ {"mysql_user"} |-> secrets[f]]

\* writeMysqlSecrets: secrets.json holds JSON.stringify(secrets), the object
\* with the four fields, which readMysqlSecretsFile parses back.
writeMysqlSecrets(secrets) == [f \in SecretFields |-> secrets[f]]

\* ------------------------------------------------------------- descriptor

\* params.field ?? default: the credentials handed to writeComposeFiles are
\* null (NoSecrets) for a challenge without database.
paramOr(secrets, field, default) ==
    IF field \in DOMAIN secrets THEN secrets[field] ELSE default

dbName(params) == paramOr(params.secrets, "mysql_database", "ctf")
appUser(params) == paramOr(params.secrets, "mysql_user", "root")
appPassword(params) ==
    IF appUser(params) = "root" THEN paramOr(params.secrets, "mysql_root_password", "")
    ELSE paramOr(params.secrets, "mysql_password", "")

\* A line of descriptor text: fixed text followed by an interpolated value.
Line(text, value) == [text |-> text, value |-> value]
EmptyLine == Line("", "")
SeedMount == Line("      - ../pack/db/init.sql:/docker-entrypoint-initdb.d/init.sql", ":ro")

\* A block of text is the sequence of its lines (joined by "\n" in the
\* program); the empty text "" is the empty sequence.
appEnv(params) ==
    IF params.dbType = "mysql"
    THEN << Line("    environment:", ""),
            Line("      MYSQL_HOST: db", ""),
            Line("      MYSQL_USER: ", appUser(params)),
            Line("      MYSQL_PASSWORD: ", appPassword(params)),
            Line("      MYSQL_DATABASE: ", dbName(params)) >>
    ELSE << >>

dbDepends(params) ==
    IF params.dbType = "mysql"
    THEN << Line("    depends_on:", ""), Line("      - db", "") >>
    ELSE << >>

\* A seed line that is there whether or not the pack has a seed file.
dbInitLineAlways(params) == SeedMount

dbInitLine(params) == IF params.dbInitExists THEN SeedMount ELSE EmptyLine

mysqlEnv(params) ==
    << Line("      MYSQL_ROOT_PASSWORD: ", paramOr(params.secrets, "mysql_root_password", "")),
       Line("      MYSQL_DATABASE: ", dbName(params)) >>
    \o (IF appUser(params) # "root"
        THEN << Line("      MYSQL_USER: ", appUser(params)),
                Line("      MYSQL_PASSWORD: ", appPassword(params)) >>
        ELSE << >>)

\* A filter that keeps every line.
filterEmptyNone(lines) == lines

\* .filter((line) => line !== "")
filterEmpty(lines) == SelectSeq(lines, LAMBDA line : line # EmptyLine)

mysqlServiceLines(params) ==
    << Line("  db:", ""), Line("    image: mysql:8", ""), Line("    environment:", "") >>
    \o mysqlEnv(params)
    \o << Line("    volumes:", ""), Line("      - ../mysql-data:/var/lib/mysql", ""),
          dbInitLine(params) >>

\* A database block rendered whatever the db type.
mysqlServiceAlways(params) == filterEmpty(mysqlServiceLines(params))

mysqlService(params) ==
    IF params.dbType = "mysql" THEN filterEmpty(mysqlServiceLines(params)) ELSE << >>

\* The values render substitutes for the tokens of the runtime's
\* docker-compose.yml template.
writeComposeFiles(params) ==
    [ HOST_PORT     |-> params.hostPort,
      APP_ENV       |-> appEnv(params),
      DB_DEPENDS    |-> dbDepends(params),
      MYSQL_SERVICE |-> mysqlService(params) ]

\* --------------------------------------------------------------- requests

IdleReq ==
    [ pc |-> "idle", op |-> "none", arg |-> 0,
      body |-> NoRow,          \* request.body of PUT /settings
      challenge |-> NoRow,     \* const challenge = getChallenge(db, challengeId)
      inst |-> NoRow,          \* latestInstance / instance
      resume |-> FALSE,        \* inside if (packExists && composeExists)
      packExists |-> FALSE, composeExists |-> FALSE,
      settings |-> NoRow,      \* const settings = getSettings(db)
      reserved |-> {},         \* reservedPorts
      hostPort |-> NoPort,
      id |-> 0,                \* instanceId of a fresh start
      result |-> "none",       \* composeResult: "ok" (code 0), "fail" (code # 0), "reject"
      todo |-> << >>,          \* the instances the loop of DELETE /challenges/:id has yet to visit
      calls |-> << >>,         \* the commands the request has handed to the runtime driver
      status |-> 0 ]           \* HTTP status of the reply

\* What pre records when request r arrives: the state it finds, if it is
\* the only request being served (overlapping requests have no one pre-state).
Snapshot(r) ==
    IF \A q \in Reqs \ {r} : req[q].pc = "idle"
    THEN [instances |-> instances, workdirs |-> workdirs, up |-> up, busy |-> busy,
          settings |-> settings, challenges |-> challenges, storage |-> storage]
    ELSE NoRow

InProgress(r) == req[r].pc \notin {"idle", "done"}

Quiet == \A r \in Reqs : req[r].pc = "idle"

\* A request takes the first idle slot (slots are interchangeable).
FirstIdle(r) == req[r].pc = "idle" /\ \A q \in Reqs : q < r => req[q].pc # "idle"

\* The workspace directory and compose project a request works on.
WorkId(rq) == IF rq.op = "start" /\ ~rq.resume /\ rq.id # 0 THEN rq.id ELSE rq.inst.id

\* reply.status(code).send(...): the handler returns and its locals are gone;
\* the slot keeps the request, the path taken and what the reply carries.
Reply(rq, code) ==
    [IdleReq EXCEPT !.pc = "done", !.op = rq.op, !.arg = rq.arg, !.status = code,
                    !.resume = rq.resume, !.result = rq.result, !.calls = rq.calls,
                    !.body = rq.body,
                    !.id = IF rq.op = "start" /\ code = 200 THEN WorkId(rq) ELSE 0,
                    !.hostPort = IF rq.op = "start" /\ code = 200 THEN rq.hostPort ELSE NoPort]

\* if (packExists && composeExists): the workspace can be resumed.
Resumable(i) == packExists(i) /\ composeExists(i)

\* Start requests that may still draw an instance UUID.
PendingStarts ==
    {r \in Reqs : /\ req[r].op = "start" /\ InProgress(r)
                  /\ req[r].id = 0 /\ ~req[r].resume
                  /\ ~(req[r].pc \in {"statPack", "statCompose"} /\ Resumable(req[r].inst.id))}

\* Instance ids no row, workspace, compose project or request in progress
\* refers to: such an id is as good as a new UUID.
FreeIds ==
    {i \in InstanceIds :
        /\ instances[i] = NoRow /\ workdirs[i] = NoDir /\ composeProject(i) \notin up
        /\ \A r \in Reqs : InProgress(r) =>
               req[r].id # i /\ (req[r].inst # NoRow => req[r].inst.id # i)}

\* crypto.randomUUID(): an id not in use (ids differ only by name, so the
\* least one stands for any).
randomUUID == CHOOSE i \in FreeIds : \A j \in FreeIds : i <= j

\* The run keeps an id in stock for every start that may draw one.
IdInStock == Cardinality(FreeIds) > Cardinality(PendingStarts)

\* --------------------------------------------------------- POST /instances

\* Lines 404-406: settings, ranges and the reserved set are read afresh.
ReadAllocInputs(rq, tbl) ==
    [rq EXCEPT !.settings = settings, !.reserved = reservedPorts(tbl)]

\* A status check that never sees a running instance.
alreadyRunningNever(latestInstance) == FALSE

\* if (latestInstance.status === "running")
alreadyRunning(latestInstance) == latestInstance.status = "running"

StartBegin(r, c) ==
    /\ FirstIdle(r)
    /\ pre' = Snapshot(r)
    /\ LET rq == [IdleReq EXCEPT !.op = "start", !.arg = c]
       IN IF c = EmptyChallengeId
          THEN req' = [req EXCEPT ![r] = Reply(rq, 400)]
          ELSE IF getChallenge(c) = NoRow
          THEN req' = [req EXCEPT ![r] = Reply(rq, 404)]
          ELSE IF getLatestInstanceByChallenge(instances, c) = {}
          THEN /\ IdInStock
               /\ req' = [req EXCEPT ![r] =
                      [ReadAllocInputs(rq, instances) EXCEPT
                          !.challenge = getChallenge(c), !.pc = "findPort"]]
          ELSE \E i \in getLatestInstanceByChallenge(instances, c) :
                  IF alreadyRunning(instances[i])
                  THEN req' = [req EXCEPT ![r] = Reply(rq, 409)]
                  ELSE /\ Resumable(i) \/ IdInStock
                       /\ req' = [req EXCEPT ![r] =
                              [rq EXCEPT !.challenge = getChallenge(c),
                                         !.inst = instances[i], !.pc = "statPack"]]
    /\ UNCHANGED <<settings, challenges, storage, instances, workdirs, up, busy, clock, fx>>

\* A resume that never looks at the reserved set.
portReservedNever(hostPort, reserved) == FALSE

\* if (reservedPorts.has(hostPort))
portReserved(hostPort, reserved) == hostPort \in reserved

StartStatPack(r) ==
    /\ req[r].pc = "statPack"
    /\ req' = [req EXCEPT ![r].packExists = packExists(req[r].inst.id),
                          ![r].pc = "statCompose"]
    /\ UNCHANGED <<settings, challenges, storage, instances, workdirs, up, busy, clock, pre, fx>>

StartStatCompose(r) ==
    /\ req[r].pc = "statCompose"
    /\ LET rq == [req[r] EXCEPT !.composeExists = composeExists(req[r].inst.id)]
       IN IF rq.packExists /\ rq.composeExists
          THEN LET rs == [ReadAllocInputs(rq, instances) EXCEPT
                              !.resume = TRUE, !.hostPort = rq.inst.host_port]
               IN req' = [req EXCEPT ![r] =
                      [rs EXCEPT !.pc = IF portReserved(rs.hostPort, rs.reserved)
                                        THEN "findPort" ELSE "probe"]]
          ELSE req' = [req EXCEPT ![r] = [rq EXCEPT !.pc = "rmOrphan"]]
    /\ UNCHANGED <<settings, challenges, storage, instances, workdirs, up, busy, clock, pre, fx>>

StartProbe(r) ==
    /\ req[r].pc = "probe"
    /\ req' = [req EXCEPT ![r].pc = IF isPortAvailable(req[r].hostPort)
                                    THEN "secrets" ELSE "findPort"]
    /\ UNCHANGED <<settings, challenges, storage, instances, workdirs, up, busy, clock, pre, fx>>

\* An orphan purge that removes the directory but leaves the stale row.
StartRmOrphanKeepRow(r) ==
    /\ req[r].pc = "rmOrphan"
    /\ workdirs' = [workdirs EXCEPT ![req[r].inst.id] = NoDir]
    /\ req' = [req EXCEPT ![r] =
                  [ReadAllocInputs(req[r], instances) EXCEPT !.pc = "findPort"]]
    /\ UNCHANGED <<settings, challenges, storage, instances, up, busy, clock, pre, fx>>

\* await fs.rm(workdir), deleteInstance, then the fresh start from line 404.
StartRmOrphan(r) ==
    /\ req[r].pc = "rmOrphan"
    /\ workdirs' = [workdirs EXCEPT ![req[r].inst.id] = NoDir]
    /\ instances' = deleteInstance(instances, req[r].inst.id)
    /\ req' = [req EXCEPT ![r] =
                  [ReadAllocInputs(req[r], instances') EXCEPT !.pc = "findPort"]]
    /\ UNCHANGED <<settings, challenges, storage, up, busy, clock, pre, fx>>

\* An allocation that keeps the chosen port bound until the row is written.
StartFindPortReserving(r) ==
    /\ req[r].pc = "findPort"
    /\ req[r].resume \/ FreeIds # {}
    /\ LET p == findAvailablePort(req[r].settings.port_ranges, req[r].reserved, AvailNow)
       IN IF p = NoPort
          THEN req' = [req EXCEPT ![r] = Reply(req[r], 400)]
          ELSE IF req[r].resume
          THEN req' = [req EXCEPT ![r].hostPort = p, ![r].pc = "secrets"]
          ELSE req' = [req EXCEPT ![r].hostPort = p, ![r].id = randomUUID,
                                  ![r].pc = "copy"]
    /\ busy' = busy \cup ({findAvailablePort(req[r].settings.port_ranges, req[r].reserved,
                                              AvailNow)} \ {NoPort})
    /\ UNCHANGED <<settings, challenges, storage, instances, workdirs, up, clock, pre, fx>>

\* await findAvailablePort(ranges, reservedPorts); a fresh start then draws
\* its instanceId (lines 408-413).
StartFindPort(r) ==
    /\ req[r].pc = "findPort"
    /\ req[r].resume \/ FreeIds # {}
    /\ LET p == findAvailablePort(req[r].settings.port_ranges, req[r].reserved, AvailNow)
       IN IF p = NoPort
          THEN req' = [req EXCEPT ![r] = Reply(req[r], 400)]
          ELSE IF req[r].resume
          THEN req' = [req EXCEPT ![r].hostPort = p, ![r].pc = "secrets"]
          ELSE req' = [req EXCEPT ![r].hostPort = p, ![r].id = randomUUID,
                                  ![r].pc = "copy"]
    /\ UNCHANGED <<settings, challenges, storage, instances, workdirs, up, busy, clock, pre, fx>>

\* copyDir(files, packDir): mkdir -p packDir, then fs.cp, which throws when
\* the challenge's storage is gone.
StartCopy(r) ==
    /\ req[r].pc = "copy"
    /\ LET src == storage[req[r].challenge.id]
       IN IF src = NoDir
          THEN /\ workdirs' = [workdirs EXCEPT ![req[r].id] = [EmptyDir EXCEPT !.pack = TRUE]]
               /\ req' = [req EXCEPT ![r] = Reply(req[r], 400)]
          ELSE /\ workdirs' = [workdirs EXCEPT ![req[r].id] =
                                  [EmptyDir EXCEPT !.pack = TRUE, !.init = src.init]]
               /\ req' = [req EXCEPT ![r].pc = "secrets"]
    /\ UNCHANGED <<settings, challenges, storage, instances, up, busy, clock, pre, fx>>

\* fs.stat(init.sql), then loadMysqlSecrets for a mysql challenge: the file is
\* read, merged with the settings and written back; the write raises when the
\* workspace directory is gone, or on an I/O error (ioerr).
StartSecrets(r, ioerr) ==
    /\ req[r].pc = "secrets"
    /\ LET w == WorkId(req[r])
       IN IF req[r].challenge.db_type # "mysql"
          THEN /\ ~ioerr
               /\ req' = [req EXCEPT ![r].pc = "render"]
               /\ UNCHANGED workdirs
          ELSE IF ioerr \/ workdirs[w] = NoDir
          THEN /\ req' = [req EXCEPT ![r] = Reply(req[r], 400)]
               /\ UNCHANGED workdirs
          ELSE /\ workdirs' = [workdirs EXCEPT ![w].secrets =
                                  writeMysqlSecrets(loadMysqlSecrets(workdirs[w].secrets,
                                                                     req[r].settings))]
               /\ req' = [req EXCEPT ![r].pc = "render"]
    /\ UNCHANGED <<settings, challenges, storage, instances, up, busy, clock, pre, fx>>

\* writeComposeFiles: mkdir -p composeDir, read the templates, write the
\* descriptor with HOST_PORT = hostPort; an I/O error (ioerr) raises.
StartRender(r, ioerr) ==
    /\ req[r].pc = "render"
    /\ LET w == WorkId(req[r])
           dir == IF workdirs[w] = NoDir THEN EmptyDir ELSE workdirs[w]
       IN IF ioerr
          THEN /\ req' = [req EXCEPT ![r] = Reply(req[r], 400)]
               /\ UNCHANGED workdirs
          ELSE /\ workdirs' = [workdirs EXCEPT ![w] = [dir EXCEPT !.compose = req[r].hostPort]]
               /\ req' = [req EXCEPT ![r].pc = "upRun"]
    /\ UNCHANGED <<settings, challenges, storage, instances, up, busy, clock, pre, fx>>

\* ---------------------------------------------------------------- runtime

\* The compose project a request hands to the runtime driver.
ProjectOf(rq) ==
    IF rq.op = "start" /\ ~rq.resume THEN composeProject(rq.id) ELSE rq.inst.compose_project

\* docker compose up -d, as the engine runs it: it can exit 0 only if the
\* descriptor is there; it may exit nonzero, or the spawn may fail ("reject").
ComposeUpRun(r, outcome) ==
    /\ req[r].pc = "upRun"
    /\ IF outcome = "ok"
       THEN /\ composeExists(WorkId(req[r]))
            /\ up' = up \cup {ProjectOf(req[r])}
       ELSE UNCHANGED up
    /\ req' = [req EXCEPT ![r].result = outcome, ![r].pc = "upDone",
                           ![r].calls = Append(@, "up")]
    /\ UNCHANGED <<settings, challenges, storage, instances, workdirs, busy, clock, pre, fx>>

\* docker compose down: it can exit 0 only if the descriptor is there.
ComposeDownRun(r, outcome) ==
    /\ req[r].pc = "downRun"
    /\ IF outcome = "ok"
       THEN /\ composeExists(req[r].inst.id)
            /\ up' = up \ {req[r].inst.compose_project}
       ELSE UNCHANGED up
    /\ req' = [req EXCEPT ![r].result = outcome, ![r].pc = "downDone",
                           ![r].calls = Append(@, "down")]
    /\ UNCHANGED <<settings, challenges, storage, instances, workdirs, busy, clock, pre, fx>>

\* A status that ignores the exit code.
statusOfAlwaysRunning(result) == "running"

\* const status = composeResult.code === 0 ? "running" : "error"
statusOf(result) == IF result = "ok" THEN "running" ELSE "error"

\* Lines 389-397 (resume) and 441-459 (fresh start), and the catch of line 460.
StartUpDone(r) ==
    /\ req[r].pc = "upDone"
    /\ IF req[r].result = "reject"
       THEN /\ req' = [req EXCEPT ![r] = Reply(req[r], 400)]
            /\ UNCHANGED <<instances, clock>>
       ELSE IF req[r].resume
       THEN IF req[r].result # "ok"
            THEN /\ req' = [req EXCEPT ![r] = Reply(req[r], 500)]
                 /\ UNCHANGED <<instances, clock>>
            ELSE /\ instances' = updateInstanceAfterStart(instances, req[r].inst.id,
                                     "running", req[r].hostPort, clock)
                 /\ clock' = ClockAfterRead
                 /\ req' = [req EXCEPT ![r] = Reply(req[r], 200)]
       ELSE /\ instances' = insertInstance(instances,
                    [ id              |-> req[r].id,
                      challenge_id    |-> req[r].arg,
                      status          |-> statusOf(req[r].result),
                      host_port       |-> req[r].hostPort,
                      container_port  |-> getContainerPort(req[r].challenge.runtime),
                      compose_project |-> composeProject(req[r].id),
                      created_at      |-> clock,
                      updated_at      |-> clock ])
            /\ clock' = ClockAfterRead
            /\ req' = [req EXCEPT ![r] =
                          Reply(req[r], IF req[r].result = "ok" THEN 200 ELSE 500)]
    /\ UNCHANGED <<settings, challenges, storage, workdirs, up, busy, pre, fx>>

\* ------------------------------------------------ POST /instances/:id/stop

\* A Stop that turns away an instance that is not running.
StopBeginOnlyRunning(r, id) ==
    /\ FirstIdle(r)
    /\ pre' = Snapshot(r)
    /\ LET rq == [IdleReq EXCEPT !.op = "stop", !.arg = id]
       IN IF getInstance(instances, id) = NoRow
          THEN req' = [req EXCEPT ![r] = Reply(rq, 404)]
          ELSE IF getInstance(instances, id).status # "running"
          THEN req' = [req EXCEPT ![r] = Reply(rq, 409)]
          ELSE req' = [req EXCEPT ![r] =
                    [rq EXCEPT !.inst = getInstance(instances, id), !.pc = "downRun"]]
    /\ UNCHANGED <<settings, challenges, storage, instances, workdirs, up, busy, clock, fx>>

StopBegin(r, id) ==
    /\ FirstIdle(r)
    /\ pre' = Snapshot(r)
    /\ LET rq == [IdleReq EXCEPT !.op = "stop", !.arg = id]
       IN IF getInstance(instances, id) = NoRow
          THEN req' = [req EXCEPT ![r] = Reply(rq, 404)]
          ELSE req' = [req EXCEPT ![r] =
                    [rq EXCEPT !.inst = getInstance(instances, id), !.pc = "downRun"]]
    /\ UNCHANGED <<settings, challenges, storage, instances, workdirs, up, busy, clock, fx>>

\* A Stop that does not look at the exit code.
StopDownDoneUnchecked(r) ==
    /\ req[r].pc = "downDone"
    /\ req[r].op = "stop"
    /\ instances' = updateInstanceStatus(instances, req[r].arg, "stopped", clock)
    /\ clock' = ClockAfterRead
    /\ req' = [req EXCEPT ![r] = Reply(req[r], 200)]
    /\ UNCHANGED <<settings, challenges, storage, workdirs, up, busy, pre, fx>>

\* A Stop that sends no reply when 'down' failed.
StopDownDoneSilentOnFailure(r) ==
    /\ req[r].pc = "downDone"
    /\ req[r].op = "stop"
    /\ req[r].result = "ok"
    /\ instances' = updateInstanceStatus(instances, req[r].arg, "stopped", clock)
    /\ clock' = ClockAfterRead
    /\ req' = [req EXCEPT ![r] = Reply(req[r], 200)]
    /\ UNCHANGED <<settings, challenges, storage, workdirs, up, busy, pre, fx>>

\* A rejected composeDown is not caught by the handler: the framework replies 500.
StopDownDone(r) ==
    /\ req[r].pc = "downDone"
    /\ req[r].op = "stop"
    /\ IF req[r].result # "ok"
       THEN /\ req' = [req EXCEPT ![r] = Reply(req[r], 500)]
            /\ UNCHANGED <<instances, clock>>
       ELSE /\ instances' = updateInstanceStatus(instances, req[r].arg, "stopped", clock)
            /\ clock' = ClockAfterRead
            /\ req' = [req EXCEPT ![r] = Reply(req[r], 200)]
    /\ UNCHANGED <<settings, challenges, storage, workdirs, up, busy, pre, fx>>

\* ---------------------------------------------------- DELETE /instances/:id

DeleteBegin(r, id) ==
    /\ FirstIdle(r)
    /\ pre' = Snapshot(r)
    /\ LET rq == [IdleReq EXCEPT !.op = "delete", !.arg = id]
           instance == getInstance(instances, id)
       IN IF instance = NoRow
          THEN /\ req' = [req EXCEPT ![r] = Reply(rq, 404)]
               /\ UNCHANGED instances
          ELSE IF instance.status = "running"
          THEN /\ req' = [req EXCEPT ![r] = [rq EXCEPT !.inst = instance, !.pc = "downRun"]]
               /\ UNCHANGED instances
          ELSE /\ instances' = deleteInstance(instances, id)
               /\ req' = [req EXCEPT ![r] = [rq EXCEPT !.inst = instance, !.pc = "rm"]]
    /\ UNCHANGED <<settings, challenges, storage, workdirs, up, busy, clock, fx>>

\* A Delete that does not look at the exit code.
DeleteDownDoneUnchecked(r) ==
    /\ req[r].pc = "downDone"
    /\ req[r].op = "delete"
    /\ instances' = deleteInstance(instances, req[r].arg)
    /\ req' = [req EXCEPT ![r].pc = "rm"]
    /\ UNCHANGED <<settings, challenges, storage, workdirs, up, busy, clock, pre, fx>>

DeleteDownDone(r) ==
    /\ req[r].pc = "downDone"
    /\ req[r].op = "delete"
    /\ IF req[r].result # "ok"
       THEN /\ req' = [req EXCEPT ![r] = Reply(req[r], 500)]
            /\ UNCHANGED instances
       ELSE /\ instances' = deleteInstance(instances, req[r].arg)
            /\ req' = [req EXCEPT ![r].pc = "rm"]
    /\ UNCHANGED <<settings, challenges, storage, workdirs, up, busy, clock, pre, fx>>

\* A Delete that leaves the workspace on disk.
DeleteRmSkipped(r) ==
    /\ req[r].pc = "rm"
    /\ req' = [req EXCEPT ![r] = Reply(req[r], 200)]
    /\ UNCHANGED <<settings, challenges, storage, instances, workdirs, up, busy, clock, pre, fx>>

\* await fs.rm(workdir, { recursive: true, force: true }); reply "deleted".
DeleteRm(r) ==
    /\ req[r].pc = "rm"
    /\ workdirs' = [workdirs EXCEPT ![req[r].arg] = NoDir]
    /\ req' = [req EXCEPT ![r] = Reply(req[r], 200)]
    /\ UNCHANGED <<settings, challenges, storage, instances, up, busy, clock, pre, fx>>

\* ------------------------------------------------- GET /instances/:id/logs

LogsBegin(r, id) ==
    /\ FirstIdle(r)
    /\ pre' = Snapshot(r)
    /\ LET rq == [IdleReq EXCEPT !.op = "logs", !.arg = id]
       IN IF getInstance(instances, id) = NoRow
          THEN req' = [req EXCEPT ![r] = Reply(rq, 404)]
          ELSE req' = [req EXCEPT ![r] =
                    [rq EXCEPT !.inst = getInstance(instances, id), !.pc = "logsRun"]]
    /\ UNCHANGED <<settings, challenges, storage, instances, workdirs, up, busy, clock, fx>>

\* docker compose logs --tail n: it reads the project's output and changes
\* nothing; it can exit 0 only if the descriptor is there.
ComposeLogsRun(r, outcome) ==
    /\ req[r].pc = "logsRun"
    /\ outcome = "ok" => composeExists(req[r].inst.id)
    /\ req' = [req EXCEPT ![r].result = outcome, ![r].pc = "logsDone",
                           ![r].calls = Append(@, "logs")]
    /\ UNCHANGED <<settings, challenges, storage, instances, workdirs, up, busy, clock, pre, fx>>

\* A handler that records a failed logs call in the row.
LogsDoneMarkingError(r) ==
    /\ req[r].pc = "logsDone"
    /\ IF req[r].result # "ok"
       THEN /\ instances' = updateInstanceStatus(instances, req[r].arg, "error", clock)
            /\ req' = [req EXCEPT ![r] = Reply(req[r], 500)]
       ELSE /\ req' = [req EXCEPT ![r] = Reply(req[r], 200)]
            /\ UNCHANGED instances
    /\ UNCHANGED <<settings, challenges, storage, workdirs, up, busy, clock, pre, fx>>

\* if (result.code !== 0) reply 500, else the logs are sent; a rejected
\* composeLogs is not caught and the framework replies 500.
LogsDone(r) ==
    /\ req[r].pc = "logsDone"
    /\ req' = [req EXCEPT ![r] = Reply(req[r], IF req[r].result # "ok" THEN 500 ELSE 200)]
    /\ UNCHANGED <<settings, challenges, storage, instances, workdirs, up, busy, clock, pre, fx>>

\* --------------------------------------------------- DELETE /challenges/:id

\* The for loop from one await to the next: with no instance left the rows
\* of the instances and of the challenge are deleted and the storage is
\* removed next; a running instance is torn down first; the workspace of
\* any other one is removed.
ChallengeLoop(r, rq) ==
    IF Len(rq.todo) = 0
    THEN /\ instances' = deleteInstancesByChallenge(instances, rq.challenge.id)
         /\ challenges' = deleteChallenge(challenges, rq.challenge.id)
         /\ req' = [req EXCEPT ![r] = [rq EXCEPT !.pc = "rmStorage"]]
    ELSE /\ req' = [req EXCEPT ![r] =
                [rq EXCEPT !.inst = Head(rq.todo),
                           !.pc = IF Head(rq.todo).status = "running"
                                  THEN "downRun" ELSE "rmWorkdir"]]
         /\ UNCHANGED <<instances, challenges>>

ChallengeDeleteBegin(r, c) ==
    /\ FirstIdle(r)
    /\ pre' = Snapshot(r)
    /\ LET rq == [IdleReq EXCEPT !.op = "deleteChallenge", !.arg = c,
                                 !.challenge = getChallenge(c)]
       IN IF rq.challenge = NoRow
          THEN /\ req' = [req EXCEPT ![r] = Reply(rq, 404)]
               /\ UNCHANGED <<instances, challenges>>
          ELSE \E todo \in listInstancesNewestFirst(instances, c) :
                   ChallengeLoop(r, [rq EXCEPT !.todo = todo])
    /\ UNCHANGED <<settings, storage, workdirs, up, busy, clock, fx>>

\* A deletion that does not look at the exit code.
ChallengeDownDoneUnchecked(r) ==
    /\ req[r].pc = "downDone"
    /\ req[r].op = "deleteChallenge"
    /\ req' = [req EXCEPT ![r].pc = "rmWorkdir"]
    /\ UNCHANGED <<settings, challenges, storage, instances, workdirs, up, busy, clock, pre, fx>>

\* if (result.code !== 0) reply 500 and return; a rejected composeDown is
\* not caught and the framework replies 500.
ChallengeDownDone(r) ==
    /\ req[r].pc = "downDone"
    /\ req[r].op = "deleteChallenge"
    /\ IF req[r].result # "ok"
       THEN req' = [req EXCEPT ![r] = Reply(req[r], 500)]
       ELSE req' = [req EXCEPT ![r].pc = "rmWorkdir"]
    /\ UNCHANGED <<settings, challenges, storage, instances, workdirs, up, busy, clock, pre, fx>>

\* await fs.rm(workdir, ...).catch(() => undefined), then the next turn of
\* the loop.
ChallengeRmWorkdir(r) ==
    /\ req[r].pc = "rmWorkdir"
    /\ workdirs' = [workdirs EXCEPT ![req[r].inst.id] = NoDir]
    /\ ChallengeLoop(r, [req[r] EXCEPT !.todo = Tail(@)])
    /\ UNCHANGED <<settings, storage, up, busy, clock, pre, fx>>

\* await fs.rm(challenge.storage_path, ...); reply "deleted".
ChallengeRmStorage(r) ==
    /\ req[r].pc = "rmStorage"
    /\ storage' = [storage EXCEPT ![req[r].arg] = NoDir]
    /\ req' = [req EXCEPT ![r] = Reply(req[r], 200)]
    /\ UNCHANGED <<settings, challenges, instances, workdirs, up, busy, clock, pre, fx>>

\* -------------------------------------------------------------- PUT /settings

\* String(body?.field ?? "").trim(): a field the body lacks reads as "".
\* String.prototype.trim on the strings the bodies hold.
trim(v) ==
    CASE v = " " -> ""
      [] v = " root" -> "root"
      [] OTHER -> v

\* String(body?.field ?? "").trim()
bodyString(body, field) == IF field \in DOMAIN body THEN trim(body[field]) ELSE ""

\* A check that accepts every list.
parsePortRangesAnyList(body) == "port_ranges" \in DOMAIN body

\* parsePortRanges accepts an array of ranges with 1 <= start <= end <= 65535
\* (here MaxPort); anything else throws.
parsePortRanges(body) ==
    /\ "port_ranges" \in DOMAIN body
    /\ \A k \in 1..Len(body.port_ranges) :
          ~(body.port_ranges[k].start < 1 \/ body.port_ranges[k].end > MaxPort
            \/ body.port_ranges[k].start > body.port_ranges[k].end)

updateSettings(cur, portRanges, mysqlRootPassword, mysqlDatabase, mysqlUser, mysqlPassword, now) ==
    [ port_ranges         |-> portRanges,
      host                |-> orElse(cur.host, ""),
      host_scheme         |-> orElse(cur.host_scheme, "http"),
      mysql_root_password |-> mysqlRootPassword,
      mysql_database      |-> mysqlDatabase,
      mysql_user          |-> mysqlUser,
      mysql_password      |-> mysqlPassword,
      updated_at          |-> now ]

\* A handler that stores the password as supplied.
mirrorRootPasswordNever(mysqlUser, mysqlRootPassword, mysqlPassword) == mysqlPassword

\* if (mysqlUser === "root") mysqlPassword = mysqlRootPassword
mirrorRootPassword(mysqlUser, mysqlRootPassword, mysqlPassword) ==
    IF mysqlUser = "root" THEN mysqlRootPassword ELSE mysqlPassword

\* The body of the try block up to updateSettings: the update the handler
\* hands to updateSettings, or ok = FALSE when it throws.
parseSettingsBody(body) ==
    LET mysqlRootPassword == bodyString(body, "mysql_root_password")
        mysqlDatabase == bodyString(body, "mysql_database")
        mysqlUser == bodyString(body, "mysql_user")
        mysqlPassword == mirrorRootPassword(mysqlUser, mysqlRootPassword,
                                            bodyString(body, "mysql_password"))
    IN [ ok |-> /\ parsePortRanges(body)
                /\ mysqlRootPassword # "" /\ mysqlDatabase # "" /\ mysqlUser # ""
                /\ mysqlPassword # "",
         mysqlRootPassword |-> mysqlRootPassword, mysqlDatabase |-> mysqlDatabase,
         mysqlUser |-> mysqlUser, mysqlPassword |-> mysqlPassword ]

\* The handler has no await: it is one step.  A thrown error is answered 400.
PutSettings(r, body) ==
    /\ FirstIdle(r)
    /\ pre' = Snapshot(r)
    /\ LET rq == [IdleReq EXCEPT !.op = "settings", !.body = body]
           update == parseSettingsBody(body)
       IN IF ~update.ok
          THEN /\ req' = [req EXCEPT ![r] = Reply(rq, 400)]
               /\ UNCHANGED <<settings, clock>>
          ELSE /\ settings' = updateSettings(settings, body.port_ranges,
                                             update.mysqlRootPassword, update.mysqlDatabase,
                                             update.mysqlUser, update.mysqlPassword, clock)
               /\ clock' = ClockAfterRead
               /\ req' = [req EXCEPT ![r] = Reply(rq, 200)]
    /\ UNCHANGED <<challenges, storage, instances, workdirs, up, busy, fx>>

\* UPDATE settings SET ... WHERE id = 1, on the settings table.
updateSettingsWhereId1(tbl, portRanges, mysqlRootPassword, mysqlDatabase, mysqlUser, mysqlPassword, now) ==
    [i \in DOMAIN tbl |->
        IF i = 1
        THEN updateSettings(tbl[i], portRanges, mysqlRootPassword, mysqlDatabase, mysqlUser,
                            mysqlPassword, now)
        ELSE tbl[i]]

\* The reply has been delivered: the slot takes the next request.
Finish(r) ==
    /\ req[r].pc = "done"
    /\ req' = [req EXCEPT ![r] = IdleReq]
    /\ pre' = NoRow
    /\ UNCHANGED <<settings, challenges, storage, instances, workdirs, up, busy, clock, fx>>

\* ------------------------------------------------------------ environment

\* POST /challenges: the upload is unpacked into storage, the stored tree is
\* hashed and the row inserted.
RegisterChallenge(c) ==
    /\ Quiet
    /\ challenges[c] = NoRow
    /\ \E order \in Orders(UploadOf(c).files) :
           challenges' = [challenges EXCEPT ![c] =
               [id |-> c, runtime |-> UploadOf(c).runtime, db_type |-> UploadOf(c).db_type,
                files_hash |-> hashDirectory(UploadOf(c).files, order)]]
    /\ storage' = [storage EXCEPT ![c] = [init |-> UploadOf(c).init, files |-> UploadOf(c).files]]
    /\ UNCHANGED <<settings, instances, workdirs, up, busy, clock, req, pre, fx>>

\* manifest.json of an imported bundle: none, or a record that may lack its
\* challenge or files part, or the hash inside files.
NoManifest == [nomanifest |-> TRUE]

\* The bundles sent to POST /import as challenge c: the files of UploadOf(c)
\* with no manifest, with the manifest an export writes, with a manifest
\* whose hash is that of other files, with one that has no hash and with one
\* that has no files part.
ImportBundles(c) ==
    LET meta == [runtime |-> UploadOf(c).runtime, db_type |-> UploadOf(c).db_type]
        other == CHOOSE d \in ChallengeIds : d # c
        sorted(tree) == CHOOSE o \in Orders(tree) : o = sortFiles(o)
    IN { [files |-> UploadOf(c).files, manifest |-> m] :
           m \in { NoManifest,
                   [challenge |-> meta,
                    files |-> [hash |-> hashDirectory(UploadOf(c).files, sorted(UploadOf(c).files))]],
                   [challenge |-> meta,
                    files |-> [hash |-> hashDirectory(UploadOf(other).files,
                                                      sorted(UploadOf(other).files))]],
                   [challenge |-> meta, files |-> [count |-> 1]],
                   [challenge |-> meta] } }

\* if (!manifest.challenge || !manifest.files) throw
manifestValid(manifest) ==
    manifest # NoManifest => {"challenge", "files"} \subseteq DOMAIN manifest

\* const filesHash = manifest?.files?.hash ?? (await hashDirectory(destFilesDir))
importFilesHash(manifest, tree, order) ==
    IF manifest # NoManifest /\ "hash" \in DOMAIN manifest.files
    THEN manifest.files.hash
    ELSE hashDirectory(tree, order)

\* POST /import: the bundle is unpacked, its files are copied into storage
\* and the row is inserted; a manifest without its challenge or files part
\* is answered 400 and nothing is stored.
ImportChallenge(c, bundle) ==
    /\ Quiet
    /\ challenges[c] = NoRow
    /\ manifestValid(bundle.manifest)
    /\ \E order \in Orders(bundle.files) :
           challenges' = [challenges EXCEPT ![c] =
               [id |-> c, runtime |-> UploadOf(c).runtime, db_type |-> UploadOf(c).db_type,
                files_hash |-> importFilesHash(bundle.manifest, bundle.files, order)]]
    /\ storage' = [storage EXCEPT ![c] = [init |-> UploadOf(c).init, files |-> bundle.files]]
    /\ UNCHANGED <<settings, instances, workdirs, up, busy, clock, req, pre, fx>>

\* The operator clears a workspace by hand: the whole directory or, for an
\* instance that is not running, only its pack or its rendered descriptor.
ExternalClear(i, what) ==
    /\ Quiet
    /\ workdirs[i] # NoDir
    /\ what # "dir" => instances[i] # NoRow /\ instances[i].status # "running"
    /\ workdirs' = [workdirs EXCEPT ![i] =
           CASE what = "dir" -> NoDir
             [] what = "pack" -> [workdirs[i] EXCEPT !.pack = FALSE, !.init = FALSE]
             [] what = "compose" -> [workdirs[i] EXCEPT !.compose = NoPort]]
    /\ workdirs' # workdirs
    /\ UNCHANGED <<settings, challenges, storage, instances, up, busy, clock, req, pre, fx>>

\* A port stops or starts accepting a bind: a process outside the program,
\* or a container, takes or releases it.
PortTaken(p) ==
    /\ Quiet
    /\ p \notin busy
    /\ busy' = busy \cup {p}
    /\ UNCHANGED <<settings, challenges, storage, instances, workdirs, up, clock, req, pre, fx>>

PortReleased(p) ==
    /\ Quiet
    /\ p \in busy
    /\ busy' = busy \ {p}
    /\ UNCHANGED <<settings, challenges, storage, instances, workdirs, up, clock, req, pre, fx>>

\* ------------------------------------------------------ the specifications

NoFx ==
    [ranges |-> << >>, reserved |-> {}, avail |-> {}, out |-> NoPort,
     probed |-> << >>, ran |-> FALSE]

Init ==
    /\ settings = ensureSettings
    /\ challenges = [c \in ChallengeIds |-> NoRow]
    /\ storage = [c \in ChallengeIds |-> NoDir]
    /\ instances = [i \in InstanceIds |-> NoRow]
    /\ workdirs = [i \in InstanceIds |-> NoDir]
    /\ up = {}
    /\ busy = {}
    /\ clock = 0
    /\ req = [r \in Reqs |-> IdleReq]
    /\ pre = NoRow
    /\ fx = NoFx

\* What a runtime call can come to, and whether a file write can raise.
Outcomes == {"ok", "fail", "reject"}
IoErrors == BOOLEAN
\* SpecConc leaves spawn failures and I/O errors out.
OutcomesConc == {"ok", "fail"}
IoErrorsConc == {FALSE}

StartHandlers(R, Outs, IoErrs) ==
    \E r \in R :
        \/ \E c \in ChallengeIds \cup {EmptyChallengeId} : StartBegin(r, c)
        \/ StartStatPack(r)
        \/ StartStatCompose(r)
        \/ StartProbe(r)
        \/ StartRmOrphan(r)
        \/ StartFindPort(r)
        \/ StartCopy(r)
        \/ \E ioerr \in IoErrs : StartSecrets(r, ioerr)
        \/ \E ioerr \in IoErrs : StartRender(r, ioerr)
        \/ \E outcome \in Outs : ComposeUpRun(r, outcome)
        \/ StartUpDone(r)
        \/ Finish(r)

StopDeleteHandlers(R, Outs) ==
    \E r \in R :
        \/ \E id \in InstanceIds : StopBegin(r, id)
        \/ \E outcome \in Outs : ComposeDownRun(r, outcome)
        \/ StopDownDone(r)
        \/ \E id \in InstanceIds : DeleteBegin(r, id)
        \/ DeleteDownDone(r)
        \/ DeleteRm(r)

LogsHandlers(R, Outs) ==
    \E r \in R :
        \/ \E id \in InstanceIds : LogsBegin(r, id)
        \/ \E outcome \in Outs : ComposeLogsRun(r, outcome)
        \/ LogsDone(r)

ClearWorkspace ==
    \E i \in InstanceIds : \E what \in {"dir", "pack", "compose"} : ExternalClear(i, what)

Environment ==
    \/ \E c \in ChallengeIds : RegisterChallenge(c)
    \/ ClearWorkspace
    \/ \E p \in Ports : PortTaken(p)
    \/ \E p \in Ports : PortReleased(p)

Next ==
    \/ StartHandlers(SeqReqs, Outcomes, IoErrors)
    \/ StopDeleteHandlers(SeqReqs, Outcomes)
    \/ Environment

Spec == Init /\ [][Next]_vars

\* What a request being served does once the operation it awaits returns.
Continue(r) ==
    \/ StartStatPack(r)
    \/ StartStatCompose(r)
    \/ StartProbe(r)
    \/ StartRmOrphan(r)
    \/ StartFindPort(r)
    \/ StartCopy(r)
    \/ \E ioerr \in IoErrors : StartSecrets(r, ioerr)
    \/ \E ioerr \in IoErrors : StartRender(r, ioerr)
    \/ \E outcome \in Outcomes : ComposeUpRun(r, outcome)
    \/ StartUpDone(r)
    \/ \E outcome \in Outcomes : ComposeDownRun(r, outcome)
    \/ StopDownDone(r)
    \/ DeleteDownDone(r)
    \/ DeleteRm(r)

\* One request at a time, every runtime outcome and I/O error possible;
\* between requests challenges are registered, whole workspaces cleared and
\* ports taken.
NextLive ==
    \/ StartHandlers(SeqReqs, Outcomes, IoErrors)
    \/ StopDeleteHandlers(SeqReqs, Outcomes)
    \/ \E c \in ChallengeIds : RegisterChallenge(c)
    \/ \E i \in InstanceIds : ExternalClear(i, "dir")
    \/ \E p \in Ports : PortTaken(p)

\* Every awaited operation returns: the promise a handler awaits settles,
\* and the event loop then runs the handler's continuation.
SpecLive == Init /\ [][NextLive]_vars /\ \A r \in SeqReqs : WF_vars(Continue(r))

\* Two Start requests at a time; between requests challenges are registered
\* and workspaces cleared.
NextConc ==
    \/ StartHandlers(ConcReqs, OutcomesConc, IoErrorsConc)
    \/ \E c \in ChallengeIds : RegisterChallenge(c)
    \/ ClearWorkspace

SpecConc == Init /\ [][NextConc]_vars

\* A Stop or Delete request arriving while a Start request is being served.
NextMix ==
    \/ StartHandlers(SeqReqs, OutcomesConc, IoErrorsConc)
    \/ StopDeleteHandlers(ConcReqs \ SeqReqs, OutcomesConc)
    \/ \E r \in ConcReqs \ SeqReqs : Finish(r)
    \/ \E c \in ChallengeIds : RegisterChallenge(c)

SpecMix == Init /\ [][NextMix]_vars

ChallengeHandlers(R) ==
    \E r \in R :
        \/ \E c \in ChallengeIds : ChallengeDeleteBegin(r, c)
        \/ ChallengeDownDone(r)
        \/ ChallengeRmWorkdir(r)
        \/ ChallengeRmStorage(r)

\* One request at a time, with challenges uploaded, imported and deleted.
\* A challenge deletion arriving while a Start request is being served.
NextRace ==
    \/ StartHandlers(SeqReqs, OutcomesConc, IoErrorsConc)
    \/ ChallengeHandlers(ConcReqs \ SeqReqs)
    \/ \E r \in ConcReqs \ SeqReqs : \E outcome \in OutcomesConc : ComposeDownRun(r, outcome)
    \/ \E r \in ConcReqs \ SeqReqs : Finish(r)
    \/ \E c \in ChallengeIds : RegisterChallenge(c)

SpecRace == Init /\ [][NextRace]_vars

NextChallenges ==
    \/ StartHandlers(SeqReqs, OutcomesConc, IoErrorsConc)
    \/ StopDeleteHandlers(SeqReqs, OutcomesConc)
    \/ ChallengeHandlers(SeqReqs)
    \/ \E c \in ChallengeIds : RegisterChallenge(c)
    \/ \E c \in ChallengeIds : \E bundle \in ImportBundles(c) : ImportChallenge(c, bundle)
    \/ ClearWorkspace

SpecChallenges == Init /\ [][NextChallenges]_vars

\* Bodies sent to PUT /settings: a narrower range with an application user;
\* the defaults with user root, padded, and a password of its own; and
\* bodies the handler rejects: a range with start > end, with start < 1,
\* with end beyond the last port, no port_ranges, an application user with
\* no password, a blank root password and no database.
SettingsBodies ==
    { [ port_ranges |-> << [start |-> MaxPort, end |-> MaxPort] >>,
        mysql_root_password |-> "pw2", mysql_database |-> "ctf",
        mysql_user |-> "app", mysql_password |-> "pw3" ],
      [ port_ranges |-> DEFAULT_PORT_RANGES,
        mysql_root_password |-> "pw1", mysql_database |-> "ctf", mysql_user |-> " root",
        mysql_password |-> "pw3" ],
      [ port_ranges |-> << [start |-> 2, end |-> 1] >>,
        mysql_root_password |-> "pw1", mysql_database |-> "ctf", mysql_user |-> "root" ],
      [ port_ranges |-> << [start |-> 0, end |-> 1] >>,
        mysql_root_password |-> "pw1", mysql_database |-> "ctf", mysql_user |-> "root" ],
      [ port_ranges |-> << [start |-> 1, end |-> MaxPort + 1] >>,
        mysql_root_password |-> "pw1", mysql_database |-> "ctf", mysql_user |-> "root" ],
      [ mysql_root_password |-> "pw1", mysql_database |-> "ctf", mysql_user |-> "root" ],
      [ port_ranges |-> DEFAULT_PORT_RANGES,
        mysql_root_password |-> "pw1", mysql_database |-> "ctf", mysql_user |-> "app" ],
      [ port_ranges |-> DEFAULT_PORT_RANGES,
        mysql_root_password |-> " ", mysql_database |-> "ctf", mysql_user |-> "root" ],
      [ port_ranges |-> DEFAULT_PORT_RANGES,
        mysql_root_password |-> "pw1", mysql_user |-> "root" ] }

\* One request at a time, Logs among them, with the settings changing
\* between requests; the ports' bind state stays as it is and no file write
\* fails.
NextSettings ==
    \/ StartHandlers(SeqReqs, OutcomesConc, IoErrorsConc)
    \/ StopDeleteHandlers(SeqReqs, OutcomesConc)
    \/ LogsHandlers(SeqReqs, Outcomes)
    \/ \E r \in SeqReqs : \E body \in SettingsBodies : PutSettings(r, body)
    \/ \E c \in ChallengeIds : RegisterChallenge(c)
    \/ ClearWorkspace

SpecSettings == Init /\ [][NextSettings]_vars

\* loadMysqlSecrets on its own: the settings row and the secrets file of
\* workdirs/1 are drawn, then the function is called, any number of times,
\* with PUT /settings in between.
SecretValues(field) ==
    CASE field = "mysql_root_password" -> {"pw1", "pw2"}
      [] field = "mysql_database" -> {"ctf"}
      [] field = "mysql_user" -> {"root", "app"}
      [] field = "mysql_password" -> {"pw1", "pw3"}

SecretsFiles ==
    {NoSecrets} \cup
    UNION { {f \in [held -> UNION {SecretValues(k) : k \in SecretFields}] :
                \A k \in held : f[k] \in SecretValues(k)} :
            held \in SUBSET SecretFields \ {{}} }

SettingsRows ==
    { [ensureSettings EXCEPT !.mysql_root_password = root, !.mysql_user = user,
                             !.mysql_password = password] :
        root \in SecretValues("mysql_root_password"),
        user \in SecretValues("mysql_user"),
        password \in SecretValues("mysql_password") }

InitSecrets ==
    /\ settings \in SettingsRows
    /\ challenges = [c \in ChallengeIds |-> NoRow]
    /\ storage = [c \in ChallengeIds |-> NoDir]
    /\ instances = [i \in InstanceIds |-> NoRow]
    /\ \E file \in SecretsFiles :
          workdirs = [i \in InstanceIds |->
                         IF i = 1 THEN [EmptyDir EXCEPT !.pack = TRUE, !.secrets = file]
                         ELSE NoDir]
    /\ up = {}
    /\ busy = {}
    /\ clock = 0
    /\ req = [r \in Reqs |-> IdleReq]
    /\ pre = NoRow
    /\ fx = [ran |-> FALSE]

\* const mysqlSecrets = await loadMysqlSecrets(workdir, settings), then the
\* credentials writeComposeFiles puts in the app service's environment; prev
\* keeps what the call before this one found and returned.
CallLoadMysqlSecrets ==
    /\ Quiet
    /\ LET out == loadMysqlSecrets(workdirs[1].secrets, settings)
           params == [secrets |-> out]
       IN /\ workdirs' = [workdirs EXCEPT ![1].secrets = writeMysqlSecrets(out)]
          /\ fx' = [ ran |-> TRUE, again |-> fx.ran,
                     file |-> workdirs[1].secrets, settings |-> settings, out |-> out,
                     appUser |-> appUser(params), appPassword |-> appPassword(params),
                     prev |-> IF fx.ran
                              THEN [file |-> fx.file, settings |-> fx.settings, out |-> fx.out]
                              ELSE NoRow ]
    /\ UNCHANGED <<settings, challenges, storage, instances, up, busy, clock, req, pre>>

NextSecrets ==
    \/ CallLoadMysqlSecrets
    \/ \E r \in SeqReqs : \E body \in SettingsBodies : PutSettings(r, body)
    \/ \E r \in SeqReqs : Finish(r)

SpecSecrets == InitSecrets /\ [][NextSecrets]_vars

\* writeComposeFiles on its own, for every runtime, db type, port, set of
\* credentials (null, partial or complete) and seed flag.
ComposeParams ==
    [ runtime : {"php", "flask"}, hostPort : Ports, dbType : {"none", "mysql"},
      secrets : SecretsFiles, dbInitExists : BOOLEAN ]

InitRender ==
    /\ settings = ensureSettings
    /\ challenges = [c \in ChallengeIds |-> NoRow]
    /\ storage = [c \in ChallengeIds |-> NoDir]
    /\ instances = [i \in InstanceIds |-> NoRow]
    /\ workdirs = [i \in InstanceIds |-> NoDir]
    /\ up = {}
    /\ busy = {}
    /\ clock = 0
    /\ req = [r \in Reqs |-> IdleReq]
    /\ pre = NoRow
    /\ \E params \in ComposeParams : fx = [ran |-> FALSE, params |-> params]

CallWriteComposeFiles ==
    /\ ~fx.ran
    /\ fx' = [ran |-> TRUE, params |-> fx.params, compose |-> writeComposeFiles(fx.params)]
    /\ UNCHANGED <<settings, challenges, storage, instances, workdirs, up, busy, clock, req, pre>>

SpecRender == InitRender /\ [][CallWriteComposeFiles]_vars

\* The allocator on its own: findAvailablePort(ranges, reserved) is called
\* once, on any list of at most MaxRanges valid ranges, any reserved set and
\* any set of ports whose probe succeeds.
Ranges == {rg \in [start : Ports, end : Ports] : rg.start <= rg.end}

RangeLists == UNION {[1..n -> Ranges] : n \in 0..MaxRanges}

InitPorts ==
    /\ settings = ensureSettings
    /\ challenges = [c \in ChallengeIds |-> NoRow]
    /\ storage = [c \in ChallengeIds |-> NoDir]
    /\ instances = [i \in InstanceIds |-> NoRow]
    /\ workdirs = [i \in InstanceIds |-> NoDir]
    /\ up = {}
    /\ busy = {}
    /\ clock = 0
    /\ req = [r \in Reqs |-> IdleReq]
    /\ pre = NoRow
    /\ fx \in [ranges : RangeLists, reserved : SUBSET Ports, avail : SUBSET Ports,
               out : {NoPort}, probed : {<< >>}, ran : {FALSE}]

CallFindAvailablePort ==
    /\ ~fx.ran
    /\ fx' = [fx EXCEPT
                 !.out = findAvailablePort(fx.ranges, fx.reserved, fx.avail),
                 !.probed = findAvailablePortRun(fx.ranges, fx.reserved, fx.avail).probed,
                 !.ran = TRUE]
    /\ UNCHANGED <<settings, challenges, storage, instances, workdirs, up, busy, clock, req, pre>>

SpecPorts == InitPorts /\ [][CallFindAvailablePort]_vars

\* hashDirectory on its own: it is run on any tree of at most MaxFiles
\* files, listed in any order, and then once more, either on the same tree
\* listed in any order or on any other tree.
InitHash ==
    /\ settings = ensureSettings
    /\ challenges = [c \in ChallengeIds |-> NoRow]
    /\ storage = [c \in ChallengeIds |-> NoDir]
    /\ instances = [i \in InstanceIds |-> NoRow]
    /\ workdirs = [i \in InstanceIds |-> NoDir]
    /\ up = {}
    /\ busy = {}
    /\ clock = 0
    /\ req = [r \in Reqs |-> IdleReq]
    /\ pre = NoRow
    /\ \E tree \in Trees : \E order \in Orders(tree) :
           fx = [ran |-> 0, tree |-> tree, order |-> order, hash |-> << >>,
                 tree2 |-> tree, order2 |-> order, hash2 |-> << >>]

CallHashDirectory ==
    /\ fx.ran = 0
    /\ fx' = [fx EXCEPT !.ran = 1, !.hash = hashDirectory(fx.tree, fx.order)]
    /\ UNCHANGED <<settings, challenges, storage, instances, workdirs, up, busy, clock, req, pre>>

CallHashDirectoryAgain ==
    /\ fx.ran = 1
    /\ \E tree \in Trees : \E order \in Orders(tree) :
           /\ tree # fx.tree =>
                  \A i, j \in DOMAIN order : i < j => pathLess(order[j], order[i])
           /\ fx' = [fx EXCEPT !.ran = 2, !.tree2 = tree, !.order2 = order,
                                !.hash2 = hashDirectory(tree, order)]
    /\ UNCHANGED <<settings, challenges, storage, instances, workdirs, up, busy, clock, req, pre>>

SpecHash == InitHash /\ [][CallHashDirectory \/ CallHashDirectoryAgain]_vars

\* initDb on its own: the database file holds no settings row, or a row
\* written by an earlier version with some columns NULL or empty; initDb is
\* run on it, and PUT /settings then calls updateSettings any number of times.
LegacyRows ==
    [ port_ranges : {DEFAULT_PORT_RANGES},
      host : {Null, "h"},
      host_scheme : {Null, "ftp", "https"},
      mysql_root_password : {Null, "", "pw2"},
      mysql_database : {Null, "db"},
      mysql_user : {Null, "root", "app"},
      mysql_password : {Null, "pw3"},
      updated_at : {0} ]

LegacyTables == {<< >>} \cup {[i \in {1} |-> row] : row \in LegacyRows}

\* Passwords generatePassword() can return.
Generated == {"gen1", "gen2"}

InitInitDb ==
    /\ settings = ensureSettings
    /\ challenges = [c \in ChallengeIds |-> NoRow]
    /\ storage = [c \in ChallengeIds |-> NoDir]
    /\ instances = [i \in InstanceIds |-> NoRow]
    /\ workdirs = [i \in InstanceIds |-> NoDir]
    /\ up = {}
    /\ busy = {}
    /\ clock = 1
    /\ req = [r \in Reqs |-> IdleReq]
    /\ pre = NoRow
    /\ \E tbl \in LegacyTables : \E fqdn \in {Null, "f"} :
           fx = [ran |-> 0, legacy |-> tbl, fqdn |-> fqdn, table |-> tbl,
                 gen |-> <<"gen1", "gen1">>]

CallInitDb ==
    /\ fx.ran = 0
    /\ \E gen \in Generated \X Generated :
           fx' = [fx EXCEPT !.ran = 1, !.gen = gen,
                            !.table = initDb(fx.legacy, fx.fqdn, gen, clock)]
    /\ UNCHANGED <<settings, challenges, storage, instances, workdirs, up, busy, clock, req, pre>>

\* updateSettings as PUT /settings calls it, on a body it accepts.
CallUpdateSettings(body) ==
    /\ fx.ran \in {1, 2}
    /\ LET update == parseSettingsBody(body)
       IN /\ update.ok
          /\ fx' = [fx EXCEPT !.ran = 2,
                       !.table = updateSettingsWhereId1(fx.table, body.port_ranges,
                                     update.mysqlRootPassword, update.mysqlDatabase,
                                     update.mysqlUser, update.mysqlPassword, clock)]
    /\ UNCHANGED <<settings, challenges, storage, instances, workdirs, up, busy, clock, req, pre>>

SpecInitDb ==
    InitInitDb /\ [][CallInitDb \/ \E body \in SettingsBodies : CallUpdateSettings(body)]_vars

\* getPortSummary on its own: it is called once on any list of at most
\* MaxRanges ranges with SummaryConcurrency workers; the probes the workers
\* await complete in any order, and a probe of a port that accepts a bind
\* may still fail (another probe may hold the port at that moment).
Min(a, b) == IF a < b THEN a ELSE b

InitSummary ==
    /\ settings = ensureSettings
    /\ challenges = [c \in ChallengeIds |-> NoRow]
    /\ storage = [c \in ChallengeIds |-> NoDir]
    /\ instances = [i \in InstanceIds |-> NoRow]
    /\ workdirs = [i \in InstanceIds |-> NoDir]
    /\ up = {}
    /\ busy \in SUBSET Ports
    /\ clock = 0
    /\ req = [r \in Reqs |-> IdleReq]
    /\ pre = NoRow
    /\ \E ranges \in RangeLists :
           fx = [ pc |-> "call", ranges |-> ranges, ports |-> << >>, total |-> 0,
                  index |-> 0, free |-> 0,
                  workers |-> << >>,   \* per worker: the entry it probes, 0 when it has returned
                  probes |-> << >>,    \* per port entry: the probes made of it
                  succeeded |-> {},    \* the entries whose probe succeeded
                  result |-> NoRow ]

\* while (index < total) { current = ports[index]; index += 1; await probe }:
\* worker w takes the next entry, or returns when there is none.
workerNext(st, w) ==
    IF st.index < st.total
    THEN [st EXCEPT !.workers[w] = st.index + 1, !.index = st.index + 1]
    ELSE [st EXCEPT !.workers[w] = 0]

\* Array.from({ length }, async () => ...): each worker runs up to its first
\* await as it is created.
RECURSIVE startWorkers(_, _, _)
startWorkers(st, w, n) ==
    IF w > n THEN st ELSE startWorkers(workerNext(st, w), w + 1, n)

CallGetPortSummary ==
    /\ fx.pc = "call"
    /\ LET ports == expandRanges(fx.ranges)
           total == Len(ports)
           n == Min(SummaryConcurrency, total)
           st == [fx EXCEPT !.ports = ports, !.total = total,
                            !.workers = [w \in 1..n |-> 0],
                            !.probes = [e \in 1..total |-> 0]]
       IN IF total = 0
          THEN fx' = [st EXCEPT !.pc = "returned", !.result = [total |-> 0, free |-> 0]]
          ELSE fx' = [startWorkers(st, 1, n) EXCEPT !.pc = "workers"]
    /\ UNCHANGED <<settings, challenges, storage, instances, workdirs, up, busy, clock, req, pre>>

\* A worker that gives up at the first probe that fails.
ProbeDoneStoppingOnFailure(w, ok) ==
    /\ fx.pc = "workers"
    /\ w \in DOMAIN fx.workers
    /\ fx.workers[w] # 0
    /\ ok => isPortAvailable(fx.ports[fx.workers[w]])
    /\ LET e == fx.workers[w]
           st == [fx EXCEPT !.probes[e] = @ + 1,
                            !.free = IF ok THEN @ + 1 ELSE @,
                            !.succeeded = IF ok THEN @ \cup {e} ELSE @]
       IN fx' = IF ok THEN workerNext(st, w) ELSE [st EXCEPT !.workers[w] = 0]
    /\ UNCHANGED <<settings, challenges, storage, instances, workdirs, up, busy, clock, req, pre>>

\* The probe worker w awaits resolves: if (await isPortAvailable(current))
\* free += 1, then the next turn of the loop.
ProbeDone(w, ok) ==
    /\ fx.pc = "workers"
    /\ w \in DOMAIN fx.workers
    /\ fx.workers[w] # 0
    /\ ok => isPortAvailable(fx.ports[fx.workers[w]])
    /\ LET e == fx.workers[w]
           st == [fx EXCEPT !.probes[e] = @ + 1,
                            !.free = IF ok THEN @ + 1 ELSE @,
                            !.succeeded = IF ok THEN @ \cup {e} ELSE @]
       IN fx' = workerNext(st, w)
    /\ UNCHANGED <<settings, challenges, storage, instances, workdirs, up, busy, clock, req, pre>>

\* await Promise.all(workers); return { total, free }
SummaryReturn ==
    /\ fx.pc = "workers"
    /\ \A w \in DOMAIN fx.workers : fx.workers[w] = 0
    /\ fx' = [fx EXCEPT !.pc = "returned", !.result = [total |-> fx.total, free |-> fx.free]]
    /\ UNCHANGED <<settings, challenges, storage, instances, workdirs, up, busy, clock, req, pre>>

NextSummary ==
    \/ CallGetPortSummary
    \/ \E w \in 1..SummaryConcurrency : \E ok \in BOOLEAN : ProbeDone(w, ok)
    \/ SummaryReturn

SpecSummary == InitSummary /\ [][NextSummary]_vars

\* ---------------------------------------------------------------- claims

Done(r, op) == req[r].pc = "done" /\ req[r].op = op

\* The request in slot r arrived alone and pre holds the state it found.
Alone(r) == pre # NoRow /\ \A q \in Reqs \ {r} : req[q].pc = "idle"

RowsOf(tbl, c) == listInstancesByChallenge(tbl, c)

\* C1: with requests served one at a time, the instances table never holds
\* more than one row for a challenge.
C1_AtMostOneInstancePerChallenge ==
    \A c \in ChallengeIds : Cardinality(RowsOf(instances, c)) <= 1

\* A Start has replaced the orphaned row of its challenge by a new one.
C1_Witness ==
    \E r \in Reqs :
        /\ Done(r, "start") /\ req[r].status = 200 /\ ~req[r].resume /\ Alone(r)
        /\ RowsOf(pre.instances, req[r].arg) # {}
        /\ Cardinality(RowsOf(instances, req[r].arg)) = 1

\* C2: once two overlapping Start requests are both served, their challenge
\* has at most one instances row.
C2_NoDuplicateRows ==
    (\A r \in Reqs : ~InProgress(r)) =>
        \A c \in ChallengeIds : Cardinality(RowsOf(instances, c)) <= 1

LatestRunning(tbl, c) ==
    /\ getChallenge(c) # NoRow
    /\ \E i \in getLatestInstanceByChallenge(tbl, c) : tbl[i].status = "running"

\* C3: a Start for a challenge whose latest row is running is answered 409 at
\* once: it never gets to allocate a port or call the runtime, and the rows,
\* the workspaces and the runtime are as the request found them.
C3_StartOnRunningRejected ==
    \A r \in Reqs :
        (req[r].op = "start" /\ Alone(r) /\ LatestRunning(pre.instances, req[r].arg)) =>
            /\ req[r].pc = "done"
            /\ req[r].status = 409
            /\ req[r].hostPort = NoPort /\ req[r].result = "none"
            /\ instances = pre.instances /\ workdirs = pre.workdirs /\ up = pre.up

C3_Witness ==
    \E r \in Reqs :
        /\ Done(r, "start") /\ req[r].status = 409 /\ Alone(r)
        /\ LatestRunning(pre.instances, req[r].arg)

\* The ports whose probe succeeded while the request was served.
AvailPre == {p \in Ports : p \notin pre.busy}

\* C4: a successful resume persists and renders the previous host_port if
\* and only if that port was neither reserved by a running instance nor
\* failed its probe; otherwise the port is another one, not reserved and
\* probe-available.
C4_ResumePortRule ==
    \A r \in Reqs :
        (Done(r, "start") /\ req[r].resume /\ req[r].status = 200 /\ Alone(r)) =>
            LET id == req[r].id
                prev == pre.instances[id].host_port
                keep == prev \notin reservedPorts(pre.instances) /\ prev \in AvailPre
                port == instances[id].host_port
            IN /\ port = req[r].hostPort
               /\ workdirs[id].compose = port
               /\ (port = prev) <=> keep
               /\ ~keep => port \notin reservedPorts(pre.instances) /\ port \in AvailPre

\* A resume moved to another port because a running instance held its own.
C4_Witness ==
    \E r \in Reqs :
        /\ Done(r, "start") /\ req[r].resume /\ req[r].status = 200 /\ Alone(r)
        /\ pre.instances[req[r].id].host_port \in reservedPorts(pre.instances)
        /\ instances[req[r].id].host_port # pre.instances[req[r].id].host_port

InSomeRange(ranges, p) ==
    \E k \in 1..Len(ranges) : ranges[k].start <= p /\ p <= ranges[k].end

\* C5: findAvailablePort never returns a reserved port, returns a port of one
\* of the ranges, and throws exactly when every port of every range is
\* reserved or fails its probe.
C5_FindAvailablePort ==
    fx.ran =>
        /\ fx.out # NoPort =>
              /\ fx.out \notin fx.reserved
              /\ InSomeRange(fx.ranges, fx.out)
        /\ (fx.out = NoPort) <=>
              \A p \in Ports : InSomeRange(fx.ranges, p) =>
                                  (p \in fx.reserved \/ p \notin fx.avail)

\* The allocator passed over a reserved, probe-available port and returned a later one.
C5_Witness ==
    /\ fx.ran /\ fx.out # NoPort
    /\ \E p \in fx.reserved \cap fx.avail : p < fx.out /\ InSomeRange(fx.ranges, p)

\* C6: Stop writes the row only after 'down' exited 0, and then sets status
\* stopped; when 'down' fails the table is as the request found it and the
\* reply is a failure.
C6_StopOnlyOnDownSuccess ==
    \A r \in Reqs :
        (req[r].op = "stop" /\ Alone(r) /\ pre.instances[req[r].arg] # NoRow) =>
            /\ InProgress(r) => instances = pre.instances
            /\ (req[r].pc = "done" /\ req[r].result # "ok") =>
                  req[r].status = 500 /\ instances = pre.instances
            /\ (req[r].pc = "done" /\ req[r].result = "ok") =>
                  /\ req[r].status = 200
                  /\ instances[req[r].arg].status = "stopped"
                  /\ instances[req[r].arg].host_port = pre.instances[req[r].arg].host_port

C6_Witness ==
    \E r \in Reqs :
        /\ Done(r, "stop") /\ Alone(r) /\ req[r].result = "fail" /\ req[r].status = 500
        /\ pre.instances[req[r].arg] # NoRow
        /\ pre.instances[req[r].arg].status = "running"

WasRunning(r) ==
    /\ Alone(r)
    /\ pre.instances[req[r].arg] # NoRow
    /\ pre.instances[req[r].arg].status = "running"

\* C7: Delete of a running instance calls 'down' before anything else; when
\* 'down' fails the reply is a failure and the row and the workspace are as
\* the request found them.
C7_DeleteAbortsOnDownFailure ==
    \A r \in Reqs :
        (req[r].op = "delete" /\ WasRunning(r)) =>
            /\ req[r].pc \in {"downRun", "downDone"} =>
                  instances = pre.instances /\ workdirs = pre.workdirs
            /\ req[r].pc \in {"rm", "done"} => req[r].result # "none"
            /\ (req[r].pc = "done" /\ req[r].result # "ok") =>
                  /\ req[r].status = 500
                  /\ instances = pre.instances /\ workdirs = pre.workdirs

C7_Witness ==
    \E r \in Reqs :
        /\ Done(r, "delete") /\ WasRunning(r)
        /\ req[r].result = "fail" /\ req[r].status = 500
        /\ workdirs[req[r].arg] # NoDir

NewRows == Rows(instances) \ Rows(pre.instances)

\* C9: a fresh Start (no prior row) whose 'up' exits nonzero replies failure
\* and leaves exactly one row for the challenge, a new one, with status error,
\* the allocated host_port and its compose project.
C9_FreshStartFailureRecorded ==
    \A r \in Reqs :
        (/\ Done(r, "start") /\ Alone(r) /\ req[r].result = "fail"
         /\ RowsOf(pre.instances, req[r].arg) = {}) =>
            /\ req[r].status = 500
            /\ Cardinality(RowsOf(instances, req[r].arg)) = 1
            /\ \A i \in RowsOf(instances, req[r].arg) :
                  /\ i \in NewRows
                  /\ instances[i].status = "error"
                  /\ instances[i].host_port =
                        findAvailablePort(settings.port_ranges,
                                          reservedPorts(pre.instances), AvailPre)
                  /\ instances[i].compose_project = composeProject(i)
                  /\ workdirs[i] # NoDir /\ workdirs[i].compose = instances[i].host_port
            /\ \A i \in Rows(pre.instances) : instances[i] = pre.instances[i]

C9_Witness ==
    \E r \in Reqs :
        /\ Done(r, "start") /\ Alone(r) /\ req[r].result = "fail" /\ req[r].status = 500
        /\ RowsOf(pre.instances, req[r].arg) = {}
        /\ \E i \in RowsOf(instances, req[r].arg) : instances[i].status = "error"

\* C10: whenever the 'up' of a Start exits nonzero, resume included, the
\* challenge's row has status error once the request is served.
C10_UpFailurePersistsError ==
    \A r \in Reqs :
        (Done(r, "start") /\ req[r].result = "fail") =>
            \E i \in RowsOf(instances, req[r].arg) : instances[i].status = "error"

C16_NoPortCollisionAmongRunning ==
    \A i, j \in listRunningInstances(instances) :
        i # j => instances[i].host_port # instances[j].host_port

\* Two instances are running, and a request has just been served.
C16_Witness ==
    /\ Cardinality(listRunningInstances(instances)) = 2
    /\ \E r \in Reqs : Done(r, "start") /\ req[r].status = 200 /\ Alone(r)

\* C15: whenever no request is being served, every compose project the
\* runtime has brought up and not torn down has a row in the instances table.
C15_NoUntrackedProject ==
    (\A r \in Reqs : ~InProgress(r)) =>
        \A i \in InstanceIds :
            composeProject(i) \in up =>
                instances[i] # NoRow /\ instances[i].compose_project = composeProject(i)

\* C17: choosing a port reserves nothing: the step in which a Start leaves
\* findAvailablePort changes neither the store, nor the ports that can be
\* bound, nor the runtime, nor any workspace, and until its row is written
\* a fresh Start's port is in no other request's reserved set on its account.
C17_AllocationHoldsNoReservation ==
    [][\A r \in Reqs :
          (req[r].pc = "findPort" /\ req'[r].pc # "findPort") =>
              /\ instances' = instances /\ busy' = busy
              /\ up' = up /\ workdirs' = workdirs
              /\ (req'[r].pc = "copy" => instances'[req'[r].id] = NoRow)]_vars

\* Two overlapping Starts of different challenges were both answered 200 for
\* the same host port, and both rows are running on it.
C17_Witness ==
    \E r, q \in Reqs :
        /\ r # q /\ Done(r, "start") /\ Done(q, "start")
        /\ req[r].status = 200 /\ req[q].status = 200
        /\ req[r].arg # req[q].arg /\ req[r].id # req[q].id
        /\ req[r].hostPort = req[q].hostPort
        /\ \A x \in {req[r].id, req[q].id} :
              /\ instances[x] # NoRow /\ instances[x].status = "running"
              /\ instances[x].host_port = req[r].hostPort

\* C11: a fresh Start answered 200 has inserted a running row whose
\* host_port is the allocated one: a port of the port ranges configured when
\* the request ran, and not the port of any instance that was running then.
C11_FreshStartPort ==
    \A r \in Reqs :
        (Done(r, "start") /\ req[r].status = 200 /\ ~req[r].resume /\ Alone(r)) =>
            LET row == instances[req[r].id]
            IN /\ row # NoRow
               /\ pre.instances[req[r].id] = NoRow
               /\ row.status = "running"
               /\ row.challenge_id = req[r].arg
               /\ row.host_port = req[r].hostPort
               /\ InSomeRange(pre.settings.port_ranges, row.host_port)
               /\ row.host_port \notin reservedPorts(pre.instances)

\* A fresh Start succeeded while another instance was running and the
\* configured ranges did not cover every port.
C11_Witness ==
    \E r \in Reqs :
        /\ Done(r, "start") /\ req[r].status = 200 /\ ~req[r].resume /\ Alone(r)
        /\ reservedPorts(pre.instances) # {}
        /\ \E p \in Ports : ~InSomeRange(pre.settings.port_ranges, p)

C14_RootPasswordMirroring ==
    fx.ran =>
        /\ fx.out.mysql_user = "root" => fx.out.mysql_password = fx.out.mysql_root_password
        /\ fx.appUser = fx.out.mysql_user
        /\ fx.appPassword = fx.out.mysql_password
        /\ fx.appUser = "root" => fx.appPassword = fx.out.mysql_root_password

\* A file that held another password for user root was resolved.
C14_Witness ==
    /\ fx.ran /\ fx.out.mysql_user = "root"
    /\ "mysql_password" \in DOMAIN fx.file
    /\ fx.file.mysql_password # fx.out.mysql_password

\* The number of seed bind-mount lines in a block of text.
SeedLines(block) == Cardinality({k \in 1..Len(block) : block[k] = SeedMount})

HasEmptyLine(block) == \E k \in 1..Len(block) : block[k] = EmptyLine

\* C18: with db type "none" the database service block, the app service's
\* credential environment block and its depends_on block are all empty text,
\* for every runtime, whatever credentials and seed flag are passed.
C18_NoDatabaseBlocksWithoutDb ==
    (fx.ran /\ fx.params.dbType = "none") =>
        /\ fx.compose.MYSQL_SERVICE = << >>
        /\ fx.compose.APP_ENV = << >>
        /\ fx.compose.DB_DEPENDS = << >>

\* Db type "none" rendered with all four credentials and the seed flag set.
C18_Witness ==
    /\ fx.ran /\ fx.params.dbType = "none" /\ fx.params.dbInitExists
    /\ SecretFields \subseteq DOMAIN fx.params.secrets

\* C19: with db type "mysql" the database service block has exactly one seed
\* bind-mount line when the seed flag is true, none when it is false, and no
\* empty line either way.
C19_SeedLineCount ==
    (fx.ran /\ fx.params.dbType = "mysql") =>
        /\ SeedLines(fx.compose.MYSQL_SERVICE) = IF fx.params.dbInitExists THEN 1 ELSE 0
        /\ ~HasEmptyLine(fx.compose.MYSQL_SERVICE)
        /\ fx.compose.MYSQL_SERVICE # << >>

\* Db type "mysql" rendered without a seed file.
C19_Witness == fx.ran /\ fx.params.dbType = "mysql" /\ ~fx.params.dbInitExists

\* C20 as stated: for every runtime and db type the descriptor has the
\* seed's bind mount exactly when the seed flag is true.
C20_SeedMountForEveryDbType ==
    fx.ran =>
        (fx.params.dbInitExists <=>
            \E token \in {"APP_ENV", "DB_DEPENDS", "MYSQL_SERVICE"} :
                SeedLines(fx.compose[token]) > 0)

\* C20: for every runtime, the descriptor has the seed's bind mount exactly
\* when the seed flag is true and the db type is "mysql"; the entry is
\* read-only and is nowhere but in the database service block.
C20_SeedMountOnlyWithMysql ==
    fx.ran =>
        /\ SeedLines(fx.compose.MYSQL_SERVICE) > 0
              <=> (fx.params.dbInitExists /\ fx.params.dbType = "mysql")
        /\ SeedLines(fx.compose.APP_ENV) = 0 /\ SeedLines(fx.compose.DB_DEPENDS) = 0
        /\ \A k \in 1..Len(fx.compose.MYSQL_SERVICE) :
              fx.compose.MYSQL_SERVICE[k].text = SeedMount.text
                  => fx.compose.MYSQL_SERVICE[k].value = ":ro"

\* A flask challenge without database was rendered with a seed file in its
\* pack: the descriptor has no mount for it.
C20_Witness ==
    /\ fx.ran /\ fx.params.runtime = "flask" /\ fx.params.dbType = "none"
    /\ fx.params.dbInitExists
    /\ SeedLines(fx.compose.MYSQL_SERVICE) = 0

\* C21: hashDirectory is deterministic and independent of the order in which
\* the directory is traversed: run twice on the same file tree, whatever the
\* two listing orders, it feeds the same bytes to the hash and so returns the
\* same value.
C21_HashOrderIndependent ==
    (fx.ran = 2 /\ fx.tree2 = fx.tree) => fx.hash2 = fx.hash

\* Two files, listed in two different orders, and the same hash.
C21_Witness ==
    /\ fx.ran = 2
    /\ fx.tree2 = fx.tree
    /\ Cardinality(DOMAIN fx.tree) = 2
    /\ fx.order2 # fx.order
    /\ fx.hash2 = fx.hash
    /\ Len(fx.hash) > 2

\* t2 is t1 with one more file.
FileAdded(t1, t2) ==
    /\ DOMAIN t1 \subseteq DOMAIN t2
    /\ Cardinality(DOMAIN t2) = Cardinality(DOMAIN t1) + 1
    /\ \A p \in DOMAIN t1 : t2[p] = t1[p]

\* t2 is t1 with one byte of one file changed.
ByteChanged(t1, t2) ==
    /\ DOMAIN t1 = DOMAIN t2
    /\ \E p \in DOMAIN t1 :
           /\ \A q \in DOMAIN t1 \ {p} : t2[q] = t1[q]
           /\ Len(t2[p]) = Len(t1[p])
           /\ \E k \in 1..Len(t1[p]) :
                  /\ t2[p][k] # t1[p][k]
                  /\ \A n \in 1..Len(t1[p]) : n # k => t2[p][n] = t1[p][n]

\* C22 as stated: two different file trees never feed hashDirectory the same
\* bytes, so that (SHA-256 taken as injective) any change of a tree changes
\* its hash.
C22_DifferentTreesDifferentHash ==
    (fx.ran = 2 /\ fx.tree2 # fx.tree) => fx.hash2 # fx.hash

\* C22: changing one byte of one file, adding one file or removing one file
\* changes the bytes fed to the hash, and so the hash.
C22_SingleChangeChangesHash ==
    (/\ fx.ran = 2
     /\ \/ ByteChanged(fx.tree, fx.tree2)
        \/ FileAdded(fx.tree, fx.tree2)
        \/ FileAdded(fx.tree2, fx.tree))
    => fx.hash2 # fx.hash

\* A two-file tree hashed before and after one byte of one of its files is
\* changed.
C22_Witness ==
    /\ fx.ran = 2
    /\ Cardinality(DOMAIN fx.tree) = 2
    /\ ByteChanged(fx.tree, fx.tree2)
    /\ fx.hash2 # fx.hash

\* C23: for every challenge row, created by upload or by import, with or
\* without a manifest, files_hash is the hashDirectory of the file tree
\* stored for the challenge.
C23_FilesHashOfStoredTree ==
    \A c \in ChallengeIds :
        (challenges[c] # NoRow /\ storage[c] # NoDir) =>
            \A order \in Orders(storage[c].files) :
                challenges[c].files_hash = hashDirectory(storage[c].files, order)

\* The value normalizeSettings leaves in a column: the one it found, or the
\* default when it found none.
Backfilled(found, default, stored) ==
    stored = (IF Missing(found) THEN default ELSE found)

\* C24: after initDb, and after any updateSettings that follows, the
\* settings table holds exactly one row, with id 1; after initDb the four
\* MySQL fields are non-empty and host_scheme is http or https, a field that
\* was there being kept and a missing one replaced by its default: a
\* generated root password, database "ctf", user "root", and as password
\* the root password for user root or a generated one.
C24_SettingsSingletonAndBackfill ==
    fx.ran >= 1 =>
        /\ DOMAIN fx.table = {1}
        /\ fx.ran = 1 =>
              LET row == fx.table[1]
              IN /\ \A f \in SecretFields : ~Missing(row[f])
                 /\ row.host_scheme \in {"http", "https"}
                 /\ IF 1 \notin DOMAIN fx.legacy
                    THEN \A f \in SecretFields : row[f] = ensureSettings[f]
                    ELSE LET old == fx.legacy[1]
                         IN /\ Backfilled(old.mysql_root_password, fx.gen[1],
                                          row.mysql_root_password)
                            /\ Backfilled(old.mysql_database, DEFAULT_MYSQL_DATABASE,
                                          row.mysql_database)
                            /\ Backfilled(old.mysql_user, DEFAULT_MYSQL_USER, row.mysql_user)
                            /\ Backfilled(old.mysql_password,
                                          IF row.mysql_user = "root"
                                          THEN row.mysql_root_password ELSE fx.gen[2],
                                          row.mysql_password)

\* A legacy row without root password, user or password and with a scheme
\* that is neither http nor https has gone through initDb.
C24_Witness ==
    /\ fx.ran = 1
    /\ 1 \in DOMAIN fx.legacy
    /\ fx.legacy[1].mysql_root_password = ""
    /\ fx.legacy[1].mysql_user = Null
    /\ fx.legacy[1].mysql_password = Null
    /\ fx.legacy[1].host_scheme = "ftp"
    /\ fx.table[1].mysql_password = fx.gen[1]

\* A range list of a body: port_ranges is a list whose ranges all have
\* 1 <= start <= end <= MaxPort (the scaled 65535).
RangesInBounds(ranges) ==
    \A k \in 1..Len(ranges) :
        1 <= ranges[k].start /\ ranges[k].start <= ranges[k].end /\ ranges[k].end <= MaxPort

\* Store, workspaces and settings are as the request found them.
NothingStored ==
    /\ instances = pre.instances
    /\ workdirs = pre.workdirs
    /\ settings = pre.settings
    /\ challenges = pre.challenges
    /\ storage = pre.storage

\* C25: PUT /settings with a port_ranges that is not a list, or that holds a
\* range with start < 1, end > 65535 or start > end, is rejected and leaves
\* every field of the settings row as it was; every range the row holds
\* satisfies 1 <= start <= end <= 65535.
C25_PortRangeValidation ==
    /\ RangesInBounds(settings.port_ranges)
    /\ (/\ Done(1, "settings")
        /\ \/ "port_ranges" \notin DOMAIN req[1].body
           \/ ~RangesInBounds(req[1].body.port_ranges))
       => (req[1].status = 400 /\ settings = pre.settings)

\* A body with the range 0..1 has been rejected while the row held settings
\* an earlier PUT had stored.
C25_Witness ==
    /\ Done(1, "settings")
    /\ "port_ranges" \in DOMAIN req[1].body
    /\ req[1].body.port_ranges[1].start = 0
    /\ req[1].status = 400
    /\ settings.mysql_user = "app"
    /\ settings = pre.settings

\* The field of a body is absent, empty or blank.
Blank(body, field) == field \notin DOMAIN body \/ body[field] \in {"", " "}

\* C26: after every PUT /settings that succeeds, a stored user "root" goes
\* with a stored password equal to the stored root password, whatever
\* password the body supplied; a body with an empty root password, database
\* or user, or with another user and an empty password, is rejected and
\* leaves the settings row as it was.
C26_RootPasswordMirroredOnUpdate ==
    Done(1, "settings") =>
        /\ req[1].status = 200 =>
              (settings.mysql_user = "root" =>
                   settings.mysql_password = settings.mysql_root_password)
        /\ (\/ Blank(req[1].body, "mysql_root_password")
            \/ Blank(req[1].body, "mysql_database")
            \/ Blank(req[1].body, "mysql_user")
            \/ (/\ req[1].body.mysql_user \notin {"root", " root"}
                /\ Blank(req[1].body, "mysql_password")))
           => (req[1].status = 400 /\ settings = pre.settings)

\* A body with user root and a password of its own has been accepted, and
\* the stored password is the root password.
C26_Witness ==
    /\ Done(1, "settings")
    /\ req[1].status = 200
    /\ settings.mysql_user = "root"
    /\ "mysql_password" \in DOMAIN req[1].body
    /\ req[1].body.mysql_password # settings.mysql_root_password
    /\ settings.mysql_password = settings.mysql_root_password
    /\ settings # pre.settings

\* C27: Stop, Delete and Logs on an id that has no instance row answer not
\* found, hand nothing to the runtime and change no row, workspace or
\* settings value.
C27_UnknownInstanceNotFound ==
    \A op \in {"stop", "delete", "logs"} :
        (Done(1, op) /\ pre.instances[req[1].arg] = NoRow) =>
            /\ req[1].status = 404
            /\ req[1].calls = << >>
            /\ up = pre.up
            /\ NothingStored

\* Stop has been answered 404 for an id without a row while another
\* instance was running.
C27_Witness ==
    /\ Done(1, "stop")
    /\ pre.instances[req[1].arg] = NoRow
    /\ req[1].status = 404
    /\ \E i \in InstanceIds : instances[i] # NoRow /\ instances[i].status = "running"

\* C28: Logs only queries: whether the logs call succeeds or fails, it
\* leaves rows, workspaces and settings as they were, and for an instance
\* that has a row it hands the runtime exactly one command, logs.
C28_LogsIsQueryOnly ==
    Done(1, "logs") =>
        /\ NothingStored
        /\ up = pre.up
        /\ pre.instances[req[1].arg] # NoRow => req[1].calls = <<"logs">>

\* Logs of a running instance has failed and been answered 500.
C28_Witness ==
    /\ Done(1, "logs")
    /\ req[1].result = "fail"
    /\ req[1].status = 500
    /\ req[1].calls = <<"logs">>
    /\ instances[req[1].arg].status = "running"

\* The instances challenge c had when the request arrived.
InstancesBefore(c) == listInstancesByChallenge(pre.instances, c)

C30_LoadMysqlSecretsIdempotent ==
    (fx.ran /\ fx.again /\ fx.prev.settings = fx.settings) =>
        /\ fx.out = fx.prev.out
        /\ workdirs[1].secrets = fx.file

\* The first call found a file with the user only, the second call ran
\* under the same settings, which hold another user.
C30_Witness ==
    /\ fx.ran /\ fx.again
    /\ fx.prev.settings = fx.settings
    /\ DOMAIN fx.prev.file = {"mysql_user"}
    /\ fx.prev.file.mysql_user # fx.settings.mysql_user
    /\ fx.out = fx.prev.out
    /\ workdirs[1].secrets = fx.file

\* The ports findAvailablePort passes before it reaches p: those before the
\* first entry p in the order of the two loops.
Preceding(ranges, p) ==
    LET order == expandRanges(ranges)
        first == CHOOSE n \in 1..Len(order) :
                     order[n] = p /\ \A m \in 1..(n - 1) : order[m] # p
    IN SubSeq(order, 1, first - 1)

\* C31: first fit: when findAvailablePort returns p, every port that comes
\* before p, ranges in list order and ports ascending within a range, is
\* reserved or failed its probe; reserved ports are never probed, and the
\* ports probed are the unreserved ones up to p, in that order.
C31_FirstFitOrder ==
    fx.ran =>
        /\ \A n \in 1..Len(fx.probed) : fx.probed[n] \notin fx.reserved
        /\ fx.out # NoPort =>
              LET before == Preceding(fx.ranges, fx.out)
              IN /\ \A n \in 1..Len(before) :
                        before[n] \in fx.reserved \/ before[n] \notin fx.avail
                 /\ fx.probed =
                        SelectSeq(before, LAMBDA q : q \notin fx.reserved) \o <<fx.out>>

\* The first range holds a higher port whose probe fails; the port returned
\* is the lower one of the second range.
C31_Witness ==
    /\ fx.ran
    /\ Len(fx.ranges) = 2
    /\ fx.ranges[1].start > fx.ranges[2].end
    /\ fx.out = fx.ranges[2].start
    /\ fx.probed = <<fx.ranges[1].start, fx.out>>

\* The number of port entries of a range list.
RECURSIVE EntryCount(_)
EntryCount(ranges) ==
    IF Len(ranges) = 0 THEN 0
    ELSE (ranges[1].end - ranges[1].start + 1) + EntryCount(Tail(ranges))

\* C32: getPortSummary, under any interleaving of its workers, of which
\* there are at most min(concurrency, total): no port entry is probed twice
\* and, once it has returned, every entry has been probed exactly once; a
\* failed probe counts as not free and does not end the scan; total is the
\* number of port entries of the ranges and free the number of entries
\* whose probe succeeded, so 0 <= free <= total.
C32_PortSummary ==
    /\ fx.pc # "call" =>
          /\ Len(fx.workers) <= Min(SummaryConcurrency, fx.total)
          /\ \A e \in DOMAIN fx.probes : fx.probes[e] <= 1
    /\ fx.pc = "returned" =>
          /\ \A e \in DOMAIN fx.probes : fx.probes[e] = 1
          /\ DOMAIN fx.probes = 1..EntryCount(fx.ranges)
          /\ fx.result.total = EntryCount(fx.ranges)
          /\ fx.result.free = Cardinality(fx.succeeded)
          /\ 0 <= fx.result.free /\ fx.result.free <= fx.result.total

\* Three entries and two workers: the first probe failed, the others
\* succeeded, and the summary is 2 free of 3.
C32_Witness ==
    /\ fx.pc = "returned"
    /\ fx.result = [total |-> 3, free |-> 2]
    /\ 1 \notin fx.succeeded
    /\ Len(fx.workers) = 2

\* C33: a Start, Stop or Delete request that is being served is eventually
\* answered, given that every operation it awaits returns, and an answered
\* request takes no further step of its handler; findAvailablePort probes at
\* most as many ports as its ranges have entries.
C33_RequestsComplete ==
    /\ \A r \in SeqReqs : InProgress(r) ~> (req[r].pc = "done" /\ req[r].status # 0)
    /\ [][\A r \in SeqReqs : req[r].pc = "done" => req'[r].pc \in {"done", "idle"}]_vars
    /\ [](\A r \in SeqReqs :
             req[r].pc = "findPort" =>
                 LET run == findAvailablePortRun(req[r].settings.port_ranges,
                                                 req[r].reserved, AvailNow)
                 IN Len(run.probed) <= EntryCount(req[r].settings.port_ranges))

\* A fresh Start has gone through the allocator, the copy, the rendering and
\* the runtime and has been answered.
C33_Witness ==
    /\ Done(1, "start")
    /\ ~req[1].resume
    /\ req[1].status = 200
    /\ req[1].calls = <<"up">>
    /\ busy # {}

\* C34: Stop does not look at the status of the instance: for an instance
\* that has a row, whatever its status, it hands the runtime one 'down', and
\* when the 'down' succeeds the status is stopped; so a successful Stop
\* turns an instance with status error into a stopped one.
C34_StopIgnoresStatus ==
    (Done(1, "stop") /\ pre.instances[req[1].arg] # NoRow) =>
        /\ req[1].calls = <<"down">>
        /\ req[1].result = "ok" =>
              /\ req[1].status = 200
              /\ instances[req[1].arg].status = "stopped"

\* An instance with status error has been stopped.
C34_Witness ==
    /\ Done(1, "stop")
    /\ pre.instances[req[1].arg] # NoRow
    /\ pre.instances[req[1].arg].status = "error"
    /\ req[1].calls = <<"down">>
    /\ req[1].result = "ok"
    /\ instances[req[1].arg].status = "stopped"

\* Row i differs from what the request found at most in the given columns,
\* and every other row is as the request found it.
OnlyColumnsChanged(i, columns) ==
    /\ pre.instances[i] # NoRow
    /\ instances[i] # NoRow
    /\ \A f \in DOMAIN instances[i] \ columns : instances[i][f] = pre.instances[i][f]
    /\ \A j \in InstanceIds \ {i} : instances[j] = pre.instances[j]

\* C35: a successful resume Start changes only status, host_port and
\* updated_at of the existing row, and keeps its id, challenge_id,
\* container_port, compose_project and created_at; a successful Stop changes
\* only status and updated_at, and keeps host_port; neither inserts nor
\* deletes a row.
C35_StatusTransitionFrame ==
    /\ (Done(1, "start") /\ req[1].resume /\ req[1].status = 200) =>
           /\ OnlyColumnsChanged(req[1].id, {"status", "host_port", "updated_at"})
           /\ instances[req[1].id].status = "running"
           /\ instances[req[1].id].host_port = req[1].hostPort
    /\ (Done(1, "stop") /\ req[1].status = 200) =>
           /\ OnlyColumnsChanged(req[1].arg, {"status", "updated_at"})
           /\ instances[req[1].arg].status = "stopped"

\* A resume Start that moved the instance to another port has succeeded
\* while another row was in the table.
C35_Witness ==
    /\ Done(1, "start") /\ req[1].resume /\ req[1].status = 200
    /\ instances[req[1].id].host_port # pre.instances[req[1].id].host_port
    /\ instances[req[1].id].updated_at # pre.instances[req[1].id].created_at
    /\ \E j \in InstanceIds \ {req[1].id} : instances[j] # NoRow

\* C36: in every state reached by interleaving Start and challenge-delete
\* requests, every instance row's challenge_id is the id of an existing
\* challenge row.
C36_ReferentialIntegrity ==
    \A i \in InstanceIds :
        instances[i] # NoRow => challenges[instances[i].challenge_id] # NoRow

\* C37: whenever no request is in progress, the host port rendered into an
\* instance's descriptor on disk is the host_port of its row.
C37_DescriptorAgreesWithStore ==
    Quiet =>
        \A i \in InstanceIds :
            (instances[i] # NoRow /\ composeExists(i)) =>
                workdirs[i].compose = instances[i].host_port

\* C38: whenever no request is in progress, every workspace directory on
\* disk belongs to an instance row of the store.
C38_NoLeakedWorkspace ==
    Quiet => \A i \in InstanceIds : workdirs[i] # NoDir => instances[i] # NoRow

\* C39: a Start that fails because findAvailablePort throws leaves the
\* instance rows exactly as the request found them, on the fresh start, on
\* the resume that reallocates and on the fresh start that follows the purge
\* of an orphaned row.
C39_AllocatorFailureKeepsRows ==
    [][(req[1].pc = "findPort" /\ req'[1].pc = "done") =>
           /\ req'[1].status = 400
           /\ instances' = pre.instances]_vars

====
